---- MODULE Spec2Model ----
(***************************************************************************)
(* Resource layer of the daily-fortune plugin (resources.py, main.py):     *)
(* the atomic downloader, the avatar cache and the background image cache. *)
(*                                                                         *)
(* There is one coroutine per call in Calls.  A call is either a bare      *)
(* download (_download_to_path), a get_avatar_img or a                     *)
(* get_background_image; the last two run the downloader as a              *)
(* sub-procedure.  A step of the model is the code between two suspension  *)
(* points (await) of one coroutine, or one operation that an executor      *)
(* thread performs on the file system.                                     *)
(***************************************************************************)
EXTENDS Integers, Sequences, FiniteSets, TLC

\* ---------------------------------------------------------------- bounds
MaxRetriesArg == 1   \* largest value of the retries argument
BodyLen == 2         \* chunks (of 64 KiB) in a response body
MaxNow == 2          \* clock ticks of the avatar model
AvatarExpiration == 2 \* the configured avatar_cache_expiration, in ticks
Grain == 2           \* random() takes the values 0/Grain .. (Grain-1)/Grain
MaxOther == 1        \* draws from the module-level generator by other code
MaxEnsure == 3       \* calls of _ensure_storage_dirs in a process
MaxTail == 3         \* characters of a URL after "scheme://host/"
MaxLines == 2        \* lines a text element wraps into
MaxSide == 6         \* width and height of a background, in pixels
MaxCanvas == 3       \* width and height of the target canvas
MaxCharW == 2        \* width of a character of the monospaced font
MaxWidth == 4        \* max_width of wrap_text
MaxText == 5         \* characters of a text

\* ------------------------------------------------------- program constants
NoResponse == 0      \* status stays None: the request failed before a response
BackoffUnitMs == 200 \* asyncio.sleep(0.2 * (attempt + 1))
DefaultRetries == 1  \* retries: int = 1
MaxBgAttempts == 5   \* min(5, len(background_urls))
DefaultConcurrency == 3 \* config.get("pre_cache_concurrency", 3)
MaxConcurrency == 10 \* max(1, min(concurrency, 10))

\* Two coroutines: enough for every interleaving of two calls on one path.
Calls == {1, 2}
Users == {"u1", "u2"}
\* The lines of the URL list files: http(s) URLs and one that is not.
Urls == {"http://a", "https://b"}
NotHttp == "ftp://c"
\* The *.txt files of backgroundFolder, each as its non-blank lines.
BgLists == {<<"http://a", NotHttp, "https://b">>, <<"https://b">>}
\* HTTP statuses a response may carry; NoResponse stands for a request that
\* raised (timeout, connection error) before any status was read.
Statuses == {200, 300, 404, 503}

VARIABLES
    now,        \* wall clock (datetime.now().timestamp())
    disk,       \* path -> file: the avatar, cache and ephemeral directories
    tmpf,       \* <<call, attempt>> -> file: "<dest.name>.<uuid4>.tmp" siblings
    orphan,     \* opens of temp files still running in an executor thread
                \* after the coroutine that awaited them was cancelled
    pc,         \* call -> position of its coroutine
    dest,       \* call -> destination path of its download
    retriesArg, \* call -> the retries argument as passed
    retries,    \* call -> max(0, int(retries))
    attempt,    \* call -> loop variable of the retry loop
    result,     \* call -> value returned by _download_to_path
    nreq,       \* call -> HTTP requests its current download has issued (history)
    hist,       \* call -> the statuses these requests got, in order (history)
    fault,      \* call -> an attempt of the download failed after a 2xx status (history)
    backoff,    \* call -> ms slept between the previous attempt and this one
    cancelled,  \* call -> "no", or the await at which it was cancelled (history)
    op,         \* call -> state of the wrapping get_avatar / get_background
    conf,       \* plugin_config
    sw,         \* the pre-cache sweep task: position, locals, semaphore
    kv,         \* the "bg_cache_status" record: its status field
    jfile,      \* the file jrys.json
    heap,       \* the dict objects that loads of the table have created
    mem,        \* the table attributes of ResourceManager and JrysPlugin
    req,        \* call -> state of its render request (JrysPlugin.jrys)
    pt,         \* a call of the painter: its arguments, locals and result
    mg,         \* the storage directories and the state of their set-up
    life        \* the plugin's sweep task handle and HTTP session

dlVars == <<pc, dest, retriesArg, retries, attempt, result, nreq, hist, fault,
            backoff, cancelled>>
fsVars == <<disk, tmpf, orphan>>
tableVars == <<jfile, heap, mem, req>>
moreVars == <<pt, mg, life>>
otherVars == <<sw, kv, tableVars, moreVars>>
vars == <<now, disk, tmpf, orphan, pc, dest, retriesArg, retries, attempt,
          result, nreq, hist, fault, backoff, cancelled, op, conf, sw, kv,
          jfile, heap, mem, req, pt, mg, life>>

\* ------------------------------------------------------------------ files
NoFile == [exists |-> FALSE, src |-> <<0, 0>>, len |-> 0, mtime |-> 0]
\* A file whose bytes are the first len chunks of the body that attempt
\* src[2] of call src[1] received; src = <<0, 0>> is content that was there
\* before any call of the model ran.
File(src, len, mtime) == [exists |-> TRUE, src |-> src, len |-> len, mtime |-> mtime]
OldFile(mtime) == File(<<0, 0>>, BodyLen, mtime)
Complete(f) == f.exists /\ f.len = BodyLen

\* A path is <<directory, file name, serial>>; the serial tells the random
\* uuid4 names of the ephemeral directory apart.
Null == <<>>
\* os.path.join(self.avatar_dir, f"{user_id}.jpg")
AvatarPath(u) == <<"avatars", u, 0>>
AvatarPaths == {AvatarPath(u) : u \in Users}
\* self._background_cache_dir / f"{digest}{ext}": sha256 of the URL, taken
\* to be free of collisions, so the URL itself names the file.
BgCachePath(url) == <<"background_images", url, 0>>
\* self._background_tmp_dir / f"{uuid4().hex}{ext}": a fresh name for every
\* candidate of every call.
BgTmpPath(c, i) == <<"background_images_tmp", "uuid4", c * (MaxBgAttempts + 1) + i>>
BgCachePaths == {BgCachePath(u) : u \in Urls}
BgTmpPaths == {BgTmpPath(c, i) : c \in Calls, i \in 1 .. MaxBgAttempts}
Paths == AvatarPaths \cup BgCachePaths \cup BgTmpPaths
\* What a call that is a bare download, and a configuration that no
\* operation of a specification reads, are set to.
NoOp == [kind |-> "download", st |-> "start", user |-> "", ret |-> Null,
         cleanup |-> FALSE, cands |-> <<>>, idx |-> 0]
NoOption == [kind |-> "absent", val |-> 0]
NoConf == [pre_cache |-> FALSE, cleanup |-> TRUE, lists |-> {},
           concurrency |-> NoOption]
\* No sweep task, no status record.
NoSw == [st |-> "idle", hasKv |-> FALSE, urls |-> <<>>, todo |-> <<>>,
         sem |-> 0, req |-> FALSE, flag |-> FALSE]
NoSweep == sw = NoSw /\ kv = "absent"

\* ------------------------------------------------ the fortune table (JSON)
\* Python values of the table: str, bool, and dict as its items in
\* insertion order, each item <<key, value>>.
Str(x) == [t |-> "str", s |-> x, items |-> <<>>]
Bool(b) == [t |-> "bool", s |-> IF b THEN "True" ELSE "False", items |-> <<>>]
Dict(items) == [t |-> "dict", s |-> "", items |-> items]

\* d[key] = val: in place for a key that is there, appended otherwise.
Put(items, key, val) ==
    IF \E i \in DOMAIN items : items[i][1] = key
    THEN [i \in DOMAIN items |-> IF items[i][1] = key THEN <<key, val>> ELSE items[i]]
    ELSE Append(items, <<key, val>>)
Has(d, key) == \E i \in DOMAIN d.items : d.items[i][1] = key
Get(d, key) == d.items[CHOOSE i \in DOMAIN d.items : d.items[i][1] = key][2]

\* JSON text as its tokens: strings, the literals true / false, punctuation.
Tok(k, x) == [k |-> k, s |-> x]

LitTextM(v) == "true"

\* json.dumps of a bool
LitText(v) == IF v.s = "True" THEN "true" ELSE "false"

RECURSIVE Dumps(_), DumpItems(_)
\* json.dumps(value, ensure_ascii=False, indent=4), white space left out
Dumps(v) ==
    IF v.t = "str" THEN <<Tok("str", v.s)>>
    ELSE IF v.t = "bool" THEN <<Tok("lit", LitText(v))>>
    ELSE <<Tok("p", "{")>> \o DumpItems(v.items) \o <<Tok("p", "}")>>
DumpItems(items) ==
    IF items = <<>> THEN <<>>
    ELSE <<Tok("str", items[1][1]), Tok("p", ":")>> \o Dumps(items[1][2])
         \o (IF Len(items) > 1 THEN <<Tok("p", ",")>> ELSE <<>>)
         \o DumpItems(Tail(items))

ParseFail == [ok |-> FALSE, v |-> Str(""), next |-> 0]
RECURSIVE Parse(_, _), ParseItems(_, _, _)
\* json.loads: the value that starts at token i and the index after it, or
\* JSONDecodeError.
Parse(text, i) ==
    IF i > Len(text) THEN ParseFail
    ELSE IF text[i].k = "str" THEN [ok |-> TRUE, v |-> Str(text[i].s), next |-> i + 1]
    ELSE IF text[i].k = "lit"
    THEN [ok |-> TRUE, v |-> Bool(text[i].s = "true"), next |-> i + 1]
    ELSE IF text[i] # Tok("p", "{") THEN ParseFail
    ELSE IF i + 1 <= Len(text) /\ text[i + 1] = Tok("p", "}")
    THEN [ok |-> TRUE, v |-> Dict(<<>>), next |-> i + 2]
    ELSE ParseItems(text, i + 1, <<>>)
ParseItems(text, i, acc) ==
    IF i + 1 > Len(text) \/ text[i].k # "str" \/ text[i + 1] # Tok("p", ":")
    THEN ParseFail
    ELSE LET r == Parse(text, i + 2)
             j == r.next
         IN  IF ~r.ok \/ j > Len(text) THEN ParseFail
             ELSE IF text[j] = Tok("p", ",")
             THEN ParseItems(text, j + 1, Put(acc, text[i].s, r.v))
             ELSE IF text[j] = Tok("p", "}")
             THEN [ok |-> TRUE, v |-> Dict(Put(acc, text[i].s, r.v)), next |-> j + 1]
             ELSE ParseFail
Loads(text) ==
    LET r == Parse(text, 1)
    IN  IF r.ok /\ r.next = Len(text) + 1 THEN r ELSE ParseFail

\* str(image_path), and os.path.exists / os.remove of such a string.
PathStr(p) == ToString(p)
PathOf(x) == CHOOSE p \in Paths : PathStr(p) = x
Exists(x) == \E p \in Paths : PathStr(p) = x /\ disk[p].exists

\* {"path": background_path, "should_cleanup": background_should_cleanup}
LastRec(p, cl) == Dict(<< <<"path", Str(PathStr(p))>>, <<"should_cleanup", Bool(cl)>> >>)

\* jrys.json: absent, unreadable (no permission), bytes that are not UTF-8
\* ("binary"), or text.
JFile(kind, text) == [kind |-> kind, text |-> text]
NoRef == 0
\* ResourceManager.is_data_loaded and .jrys_data (unset until a load has
\* parsed the file), JrysPlugin.jrys_data, the reads of the file (history)
\* and what the file was when the process started: "valid" JSON, "corrupt"
\* or "absent", with the users it had a record of (history), and the
\* <<user, background path>> of the renders
\* that have returned after a poster and a record (history).
NoMem == [loaded |-> FALSE, data |-> NoRef, plug |-> NoRef, reads |-> 0,
          file0 |-> "absent", rec0 |-> {}, won |-> {}]
\* A request: the handler it runs ("render" for jrys, "last" for
\* jrys_last), its position, its user, the text its load has read, what its
\* load returned, whether get_avatar_img returned a path, its
\* background_path / background_should_cleanup, the locals user_last_images
\* and old_path, what it has yielded last and the path of a yielded image;
\* for a jrys_last, the backgrounds of the user's renders that had returned
\* with success when it arrived, and whether no render of the user was
\* under way then (history).
NoReq == [kind |-> "render", st |-> "idle", user |-> "", content |-> <<>>,
          ret |-> NoRef, avatar |-> FALSE, bg |-> Null, cleanup |-> FALSE,
          tbl |-> NoRef, old |-> "", msg |-> "", img |-> "",
          seen |-> {}, quiet |-> FALSE, obj |-> NoRef]
NoTable ==
    /\ jfile = JFile("absent", <<>>)
    /\ heap = [c \in Calls |-> Dict(<<>>)]
    /\ mem = NoMem
    /\ req = [c \in Calls |-> NoReq]

\* No painter call, no storage set-up and no plugin life cycle under way.
NoPt == [st |-> "idle"]
NoMg == [st |-> "idle"]
NoLife == [st |-> "idle"]
NoMore == pt = NoPt /\ mg = NoMg /\ life = NoLife

TmpKeys == Calls \X (0 .. (MaxRetriesArg + 1))
TmpKey(c) == <<c, attempt[c]>>

\* ------------------------------------------------- _download_to_path
\* 200 <= status < 300 (the negation of line 402).
IsSuccess(status) == status >= 200 /\ status < 300

IsServerErrorM(status) == status >= 400

\* 500 <= status <= 599: the statuses that are retried.
IsServerError(status) == status >= 500 /\ status <= 599

ClampRetriesM(r) == r

\* retries = max(0, int(retries))
ClampRetries(r) == IF r < 0 THEN 0 ELSE r

\* await asyncio.sleep(0.2 * (attempt + 1)), in ms
BackoffDelay(a) == BackoffUnitMs * (a + 1)

PropagatesM(exc) == FALSE

\* `except asyncio.CancelledError: raise`: the only exception the retry loop
\* lets through; every other one is logged and retried or ends the loop.
Propagates(exc) == exc = "cancel"

\* `attempt < retries`: the guard of every retry (lines 404, 424, 439, 453, 467).
AttemptsLeft(c) == attempt[c] < retries[c]

\* The finally block: `if tmp_path.exists(): tmp_path.unlink()`.
Unlinked(tf, c) == [tf EXCEPT ![TmpKey(c)] = NoFile]

\* `return False` / `return True`, through the finally block.
Return(c, value, tf) ==
    /\ pc' = [pc EXCEPT ![c] = "returned"]
    /\ result' = [result EXCEPT ![c] = value]
    /\ tmpf' = Unlinked(tf, c)
    /\ UNCHANGED <<attempt, backoff>>

\* The handlers of TimeoutError, ClientPayloadError, ClientError and Exception
\* are the same but for the log text: with attempts left they sleep (the temp
\* file is still there: the finally block runs after the sleep), otherwise
\* they log, the loop ends and the function returns False.
Retry(c, tf) ==
    IF AttemptsLeft(c)
    THEN /\ pc' = [pc EXCEPT ![c] = "sleeping"]
         /\ tmpf' = tf
         /\ UNCHANGED <<result, attempt, backoff>>
    ELSE Return(c, "false", tf)

\* An exception raised at a suspension point inside the try block.
Throw(c, exc, tf) ==
    IF Propagates(exc)
    THEN /\ pc' = [pc EXCEPT ![c] = "cancelled"]
         /\ tmpf' = Unlinked(tf, c)
         /\ UNCHANGED <<result, attempt, backoff>>
    ELSE Retry(c, tf)

ContinueServerErrorM(c) == Return(c, "false", tmpf)

\* `continue` of the 5xx branch: through the finally block straight to the
\* next iteration of the loop; no sleep is on this path.
ContinueServerError(c) ==
    /\ pc' = [pc EXCEPT ![c] = "loop"]
    /\ attempt' = [attempt EXCEPT ![c] = @ + 1]
    /\ backoff' = [backoff EXCEPT ![c] = 0]
    /\ tmpf' = Unlinked(tmpf, c)
    /\ UNCHANGED result

\* dest.parent.mkdir(parents=True, exist_ok=True); retries = max(0, int(retries)).
\* Both statements are outside every try block: an OSError of mkdir leaves
\* the function as an exception.
DlEnter(c) ==
    /\ pc[c] = "enter"
    /\ \E mkdirOk \in BOOLEAN :
         IF mkdirOk
         THEN /\ pc' = [pc EXCEPT ![c] = "loop"]
              /\ retries' = [retries EXCEPT ![c] = ClampRetries(retriesArg[c])]
         ELSE /\ pc' = [pc EXCEPT ![c] = "raised"]
              /\ UNCHANGED retries
    /\ UNCHANGED <<now, fsVars, dest, retriesArg, attempt, result, nreq, hist,
                   fault, backoff, cancelled, op, conf, otherVars>>

\* `for attempt in range(retries + 1)`: the top of the loop body, a fresh
\* tmp_path, then session.get is awaited; an exhausted range falls through
\* to the final `return False`.
DlRequest(c) ==
    /\ pc[c] = "loop"
    /\ IF attempt[c] <= retries[c]
       THEN /\ pc' = [pc EXCEPT ![c] = "requesting"]
            /\ nreq' = [nreq EXCEPT ![c] = @ + 1]
            /\ UNCHANGED <<tmpf, result>>
       ELSE /\ pc' = [pc EXCEPT ![c] = "returned"]
            /\ result' = [result EXCEPT ![c] = "false"]
            /\ UNCHANGED <<tmpf, nreq>>
    /\ UNCHANGED <<now, disk, orphan, dest, retriesArg, retries, attempt,
                   hist, fault, backoff, cancelled, op, conf, otherVars>>

\* The request completes: with a status, or with TimeoutError / ClientError.
DlRespond(c, status) ==
    /\ pc[c] = "requesting"
    /\ hist' = [hist EXCEPT ![c] = Append(@, status)]
    /\ IF status = NoResponse
       THEN Throw(c, "error", tmpf)
       ELSE IF IsSuccess(status)
       THEN /\ pc' = [pc EXCEPT ![c] = "opening"]    \* aiofiles.open(tmp_path, "wb")
            /\ UNCHANGED <<tmpf, result, attempt, backoff>>
       ELSE IF IsServerError(status) /\ AttemptsLeft(c)
       THEN ContinueServerError(c)
       ELSE Return(c, "false", tmpf)
    /\ UNCHANGED <<now, disk, orphan, dest, retriesArg, retries, nreq, fault,
                   cancelled, op, conf, otherVars>>

\* The executor thread has opened (created, truncated) the temp file, or
\* open() raised OSError there.
DlOpen(c, ok) ==
    /\ pc[c] = "opening"
    /\ IF ok
       THEN /\ tmpf' = [tmpf EXCEPT ![TmpKey(c)] = File(TmpKey(c), 0, now)]
            /\ pc' = [pc EXCEPT ![c] = "writing"]
            /\ UNCHANGED <<result, attempt, backoff, fault>>
       ELSE /\ fault' = [fault EXCEPT ![c] = TRUE]
            /\ Throw(c, "error", tmpf)
    /\ UNCHANGED <<now, disk, orphan, dest, retriesArg, retries, nreq, hist,
                   cancelled, op, conf, otherVars>>

\* One round of `async for chunk in iter_chunked: await f.write(chunk)`:
\* the next chunk is appended, or the stream raises ClientPayloadError /
\* TimeoutError, or the write raises OSError.
DlWrite(c, ok) ==
    /\ pc[c] = "writing"
    /\ tmpf[TmpKey(c)].len < BodyLen
    /\ IF ok
       THEN /\ tmpf' = [tmpf EXCEPT ![TmpKey(c)] = File(@.src, @.len + 1, now)]
            /\ UNCHANGED <<pc, result, attempt, backoff, fault>>
       ELSE /\ fault' = [fault EXCEPT ![c] = TRUE]
            /\ Throw(c, "error", tmpf)
    /\ UNCHANGED <<now, disk, orphan, dest, retriesArg, retries, nreq, hist,
                   cancelled, op, conf, otherVars>>

\* End of the stream: the file is closed and os.replace is handed to a thread.
DlClose(c) ==
    /\ pc[c] = "writing"
    /\ tmpf[TmpKey(c)].len = BodyLen
    /\ pc' = [pc EXCEPT ![c] = "renaming"]
    /\ UNCHANGED <<now, fsVars, dest, retriesArg, retries, attempt, result,
                   nreq, hist, fault, backoff, cancelled, op, conf, otherVars>>

\* os.replace(tmp_path, dest) in the thread: dest becomes the temp file in
\* one step and `return True` follows, or os.replace raised OSError.
DlRename(c, ok) ==
    /\ pc[c] = "renaming"
    /\ IF ok
       THEN /\ disk' = [disk EXCEPT ![dest[c]] = tmpf[TmpKey(c)]]
            /\ Return(c, "true", tmpf)
            /\ UNCHANGED fault
       ELSE /\ fault' = [fault EXCEPT ![c] = TRUE]
            /\ Throw(c, "error", tmpf)
            /\ UNCHANGED disk
    /\ UNCHANGED <<now, orphan, dest, retriesArg, retries, nreq, hist,
                   cancelled, op, conf, otherVars>>

\* asyncio.sleep has elapsed: `continue`, the finally block, next iteration.
DlBackoff(c) ==
    /\ pc[c] = "sleeping"
    /\ pc' = [pc EXCEPT ![c] = "loop"]
    /\ backoff' = [backoff EXCEPT ![c] = BackoffDelay(attempt[c])]
    /\ attempt' = [attempt EXCEPT ![c] = @ + 1]
    /\ tmpf' = Unlinked(tmpf, c)
    /\ UNCHANGED <<now, disk, orphan, dest, retriesArg, retries, result, nreq,
                   hist, fault, cancelled, op, conf, otherVars>>

SuspensionPoints == {"requesting", "opening", "writing", "renaming", "sleeping"}

\* The task is cancelled while the coroutine waits at an await.  A call that
\* was handed to an executor thread (aiofiles.open, to_thread(os.replace))
\* is not interrupted by that: the thread may have done it already (done),
\* may never do it, or may do it after the coroutine has left through its
\* finally block (late).
DlCancel(c) ==
    /\ pc[c] \in SuspensionPoints
    /\ cancelled' = [cancelled EXCEPT ![c] = pc[c]]
    /\ \E thread \in {"never", "done", "late"} :
         /\ thread # "never" => pc[c] \in {"opening", "renaming"}
         /\ thread = "late" => pc[c] = "opening"
         /\ disk' = IF pc[c] = "renaming" /\ thread = "done"
                    THEN [disk EXCEPT ![dest[c]] = tmpf[TmpKey(c)]]
                    ELSE disk
         /\ orphan' = IF thread = "late" THEN orphan \cup {TmpKey(c)} ELSE orphan
         /\ Throw(c, "cancel",
                  IF pc[c] = "opening" /\ thread = "done"
                  THEN [tmpf EXCEPT ![TmpKey(c)] = File(TmpKey(c), 0, now)]
                  ELSE tmpf)
    /\ UNCHANGED <<now, dest, retriesArg, retries, nreq, hist, fault, op, conf, otherVars>>

\* The thread of a cancelled aiofiles.open gets to run open(tmp_path, "wb")
\* after the finally block found no file to unlink.
OrphanOpen(k) ==
    /\ k \in orphan
    /\ orphan' = orphan \ {k}
    /\ tmpf' = [tmpf EXCEPT ![k] = File(k, 0, now)]
    /\ UNCHANGED <<now, disk, dlVars, op, conf, otherVars>>

Download(c) ==
    \/ DlEnter(c)
    \/ DlRequest(c)
    \/ \E status \in Statuses \cup {NoResponse} : DlRespond(c, status)
    \/ \E ok \in BOOLEAN : DlOpen(c, ok)
    \/ \E ok \in BOOLEAN : DlWrite(c, ok)
    \/ DlClose(c)
    \/ \E ok \in BOOLEAN : DlRename(c, ok)
    \/ DlBackoff(c)
    \/ DlCancel(c)

\* ------------------------------------------- bare downloads (SpecDownload)
\* NumCalls concurrent calls of _download_to_path(url, dest, retries=r) for
\* every choice of dest, r and of what is at dest beforehand.
InitDownload ==
    /\ now = 0
    /\ \E d \in [AvatarPaths -> {NoFile, OldFile(0)}] :
         disk = [p \in Paths |-> IF p \in AvatarPaths THEN d[p] ELSE NoFile]
    /\ tmpf = [k \in TmpKeys |-> NoFile]
    /\ orphan = {}
    /\ pc = [c \in Calls |-> "enter"]
    /\ dest \in [Calls -> AvatarPaths]
    /\ retriesArg \in [Calls -> (-1) .. MaxRetriesArg]
    /\ retries = [c \in Calls |-> 0]
    /\ attempt = [c \in Calls |-> 0]
    /\ result = [c \in Calls |-> "pending"]
    /\ nreq = [c \in Calls |-> 0]
    /\ hist = [c \in Calls |-> <<>>]
    /\ fault = [c \in Calls |-> FALSE]
    /\ backoff = [c \in Calls |-> 0]
    /\ cancelled = [c \in Calls |-> "no"]
    /\ op = [c \in Calls |-> NoOp]
    /\ conf = NoConf
    /\ NoSweep
    /\ NoTable
    /\ NoMore

NextDownload ==
    \/ \E c \in Calls : Download(c)
    \/ \E k \in TmpKeys : OrphanOpen(k)

SpecDownload == InitDownload /\ [][NextDownload]_vars

\* The calls that share one destination, the other path being unused.
InitDownloadFair ==
    /\ InitDownload
    /\ \A c \in Calls : dest[c] = AvatarPath("u1")
    /\ ~disk[AvatarPath("u2")].exists

\* The event loop runs every coroutine that is ready, and the HTTP client's
\* total timeout ends every request: a download that can take a step
\* eventually takes one.
SpecDownloadFair ==
    InitDownloadFair /\ [][NextDownload]_vars /\ \A c \in Calls : WF_vars(Download(c))

\* ------------------------------------------------- properties: downloader
Exited(c) == pc[c] \in {"returned", "cancelled", "raised"}
TmpOf(c) == {k \in TmpKeys : k[1] = c}
NoTmpOf(c) == \A k \in TmpOf(c) : ~tmpf[k].exists
Last(h) == h[Len(h)]
EffectiveRetries(c) == IF retriesArg[c] < 0 THEN 0 ELSE retriesArg[c]
\* A status that is neither a success nor one of the retried 5xx.
OtherStatus(s) == s # NoResponse /\ ~(s >= 200 /\ s < 300) /\ ~(s >= 500 /\ s <= 599)
\* The body that attempt a of call c received, whole, is what is at path p.
HoldsBodyOf(p, c, a) == disk[p] = File(<<c, a>>, BodyLen, disk[p].mtime)

\* C1: at every moment every destination is absent, its previous complete
\* content or the complete body of a response with a 2xx status, and a call
\* that has returned or raised has left none of its temp files behind.
C1_AtomicDestNoTempLeft ==
    /\ \A p \in Paths :
         disk[p].exists =>
            /\ Complete(disk[p])
            /\ \/ disk[p].src = <<0, 0>>
               \/ /\ disk[p].src[1] \in Calls
                  /\ Len(hist[disk[p].src[1]]) > disk[p].src[2]
                  /\ hist[disk[p].src[1]][disk[p].src[2] + 1] \in 200 .. 299
    /\ \A c \in Calls : Exited(c) => NoTmpOf(c)

\* C2: with retries=1, a call that got a 5xx status first was given a second
\* attempt, and if that one got a 2xx status and nothing failed afterwards
\* the call returns true at the moment the whole second body is at dest,
\* with no temp file of the call left.
C2_RetryAfter5xxSucceeds ==
    /\ [](\A c \in Calls :
            (/\ pc[c] = "returned"
             /\ retriesArg[c] = 1
             /\ hist[c] # <<>>
             /\ hist[c][1] \in 500 .. 599)
            => /\ Len(hist[c]) = 2
               /\ (hist[c][2] \in 200 .. 299 /\ ~fault[c])
                     => result[c] = "true" /\ NoTmpOf(c))
    /\ [][\A c \in Calls :
            (/\ pc[c] # "returned"
             /\ pc'[c] = "returned"
             /\ retriesArg[c] = 1
             /\ Len(hist'[c]) = 2
             /\ hist'[c][1] \in 500 .. 599
             /\ hist'[c][2] \in 200 .. 299
             /\ ~fault'[c])
            => disk'[dest[c]] = File(<<c, 1>>, BodyLen, disk'[dest[c]].mtime)]_vars

C2_Witness ==
    \E c \in Calls :
        /\ pc[c] = "returned"
        /\ retriesArg[c] = 1
        /\ hist[c] = <<503, 200>>
        /\ result[c] = "true"
        /\ HoldsBodyOf(dest[c], c, 1)
        /\ NoTmpOf(c)

\* C3: every attempt after the first starts only after a backoff of
\* 200 ms x (number of the attempt that failed), whatever made it fail.
C3_BackoffBeforeEveryRetry ==
    \A c \in Calls :
        (attempt[c] >= 1 /\ pc[c] \in {"loop", "requesting"})
            => backoff[c] = 200 * attempt[c]

\* C4: a status outside [200,300) and outside 5xx ends the call at once: it
\* has returned false, no request follows the one that got the status (a
\* first response of this kind: exactly one request, whatever retries is),
\* and the call never put anything at dest.
C4_OtherStatusFailsAtOnce ==
    \A c \in Calls :
        \A i \in 1 .. Len(hist[c]) :
            OtherStatus(hist[c][i])
                => /\ pc[c] = "returned"
                   /\ result[c] = "false"
                   /\ nreq[c] = i
                   /\ \A p \in Paths : disk[p].src[1] # c
                   /\ NoTmpOf(c)

C4_Witness ==
    \E c \in Calls :
        /\ hist[c] = <<404>>
        /\ retries[c] = MaxRetriesArg
        /\ pc[c] = "returned"
        /\ result[c] = "false"
        /\ nreq[c] = 1

\* C5: a call issues at most r+1 requests, r = max(0, retries); it returns
\* true exactly on an attempt that got 2xx and whose rename completed; it
\* returns false without a non-retryable status only after r+1 requests;
\* and every call ends.
C5_BoundedAttempts ==
    /\ [](\A c \in Calls :
            /\ nreq[c] <= EffectiveRetries(c) + 1
            /\ Len(hist[c]) <= nreq[c]
            /\ result[c] = "true"
                 => /\ pc[c] = "returned"
                    /\ Len(hist[c]) = nreq[c]
                    /\ Last(hist[c]) \in 200 .. 299
                    /\ \/ HoldsBodyOf(dest[c], c, nreq[c] - 1)
                       \/ disk[dest[c]].src[1] \in Calls \ {c}
            /\ (pc[c] = "returned" /\ result[c] = "false")
                 => /\ nreq[c] >= 1
                    /\ Len(hist[c]) = nreq[c]
                    /\ ~OtherStatus(Last(hist[c])) => nreq[c] = EffectiveRetries(c) + 1
            /\ pc[c] = "returned" => result[c] \in {"true", "false"})
    /\ <>(\A c \in Calls : Exited(c))

C5_Witness ==
    \E c \in Calls :
        /\ retriesArg[c] = MaxRetriesArg
        /\ pc[c] = "returned"
        /\ result[c] = "false"
        /\ nreq[c] = MaxRetriesArg + 1
        /\ \A i \in 1 .. Len(hist[c]) : hist[c][i] \in {NoResponse, 503, 200}
        /\ \E d \in Calls \ {c} :
              retriesArg[d] < 0 /\ result[d] = "true" /\ nreq[d] = 1

\* C6: whatever fails, short of a cancellation, the call returns false: no
\* exception reaches the caller.
C6_NeverRaises ==
    \A c \in Calls :
        /\ pc[c] # "raised"
        /\ (Exited(c) /\ cancelled[c] = "no") => result[c] \in {"true", "false"}

\* C7: a cancellation delivered at any await of the call is re-raised: the
\* call ends as cancelled, returns nothing and issues no further request.
C7_CancellationPropagates ==
    [][\A c \in Calls :
         cancelled'[c] # "no"
            => /\ pc'[c] = "cancelled"
               /\ result'[c] = "pending"
               /\ cancelled[c] # "no" => nreq'[c] = nreq[c] /\ hist'[c] = hist[c]]_vars

C7_Witness ==
    \E c \in Calls :
        /\ cancelled[c] = "sleeping"
        /\ pc[c] = "cancelled"
        /\ attempt[c] < retries[c]
        /\ nreq[c] = 1
        /\ \E d \in Calls \ {c} : cancelled[d] = "renaming" /\ pc[d] = "cancelled"

\* ---------------------------------------------------------- get_avatar_img
AvatarFreshM(age, expiration) == age <= expiration

\* `file_age < self.avatar_cache_expiration`
AvatarFresh(age, expiration) == age < expiration

\* From the call to the first decision: the file exists and is fresh, and
\* its path is returned, or _download_to_path(url, avatar_path) is entered
\* with the default retries.  No operation removes an avatar file, so the
\* existence check and the later os.stat see the same file or a newer one.
AvCheck(c) ==
    /\ op[c].kind = "avatar"
    /\ op[c].st = "start"
    /\ LET p == AvatarPath(op[c].user) IN
         IF disk[p].exists /\ AvatarFresh(now - disk[p].mtime, AvatarExpiration)
         THEN /\ op' = [op EXCEPT ![c].st = "done", ![c].ret = p]
              /\ UNCHANGED <<pc, dest, retriesArg>>
         ELSE /\ op' = [op EXCEPT ![c].st = "downloading"]
              /\ pc' = [pc EXCEPT ![c] = "enter"]
              /\ dest' = [dest EXCEPT ![c] = p]
              /\ retriesArg' = [retriesArg EXCEPT ![c] = DefaultRetries]
    /\ UNCHANGED <<now, fsVars, retries, attempt, result, nreq, hist, fault,
                   backoff, cancelled, conf, otherVars>>

AvFinishM(c) ==
    /\ op[c].kind = "avatar"
    /\ op[c].st = "downloading"
    /\ pc[c] \in {"returned", "cancelled", "raised"}
    /\ op' = [op EXCEPT
                ![c].st = IF pc[c] = "cancelled" THEN "cancelled" ELSE "done",
                ![c].ret = dest[c]]
    /\ UNCHANGED <<now, fsVars, dlVars, conf, otherVars>>

\* The download has ended: `return avatar_path` if ok, `return None` if not
\* or if it raised (`except Exception`); a CancelledError is no Exception
\* and leaves get_avatar_img too.
AvFinish(c) ==
    /\ op[c].kind = "avatar"
    /\ op[c].st = "downloading"
    /\ pc[c] \in {"returned", "cancelled", "raised"}
    /\ op' = [op EXCEPT
                ![c].st = IF pc[c] = "cancelled" THEN "cancelled" ELSE "done",
                ![c].ret = IF pc[c] = "returned" /\ result[c] = "true"
                           THEN dest[c] ELSE Null]
    /\ UNCHANGED <<now, fsVars, dlVars, conf, otherVars>>

\* The clock advances.
Tick ==
    /\ now < MaxNow
    /\ now' = now + 1
    /\ UNCHANGED <<fsVars, dlVars, op, conf, otherVars>>

\* Concurrent get_avatar_img calls, for the same user or for two users, on
\* a directory where each avatar is either missing or was written at time 0.
InitAvatar ==
    /\ now = 0
    /\ \E d \in [AvatarPaths -> {NoFile, OldFile(0)}] :
         disk = [p \in Paths |-> IF p \in AvatarPaths THEN d[p] ELSE NoFile]
    /\ tmpf = [k \in TmpKeys |-> NoFile]
    /\ orphan = {}
    /\ pc = [c \in Calls |-> "idle"]
    /\ dest = [c \in Calls |-> Null]
    /\ retriesArg = [c \in Calls |-> 0]
    /\ retries = [c \in Calls |-> 0]
    /\ attempt = [c \in Calls |-> 0]
    /\ result = [c \in Calls |-> "pending"]
    /\ nreq = [c \in Calls |-> 0]
    /\ hist = [c \in Calls |-> <<>>]
    /\ fault = [c \in Calls |-> FALSE]
    /\ backoff = [c \in Calls |-> 0]
    /\ cancelled = [c \in Calls |-> "no"]
    /\ \E u \in [Calls -> Users] :
         op = [c \in Calls |-> [NoOp EXCEPT !.kind = "avatar", !.user = u[c]]]
    /\ conf = NoConf
    /\ NoSweep
    /\ NoTable
    /\ NoMore

NextAvatar ==
    \/ \E c \in Calls : AvCheck(c)
    \/ \E c \in Calls : Download(c)
    \/ \E c \in Calls : AvFinish(c)
    \/ \E k \in TmpKeys : OrphanOpen(k)
    \/ Tick

SpecAvatar == InitAvatar /\ [][NextAvatar]_vars

\* ------------------------------------------------------ properties: avatar
IsAvatar(c) == op[c].kind = "avatar"

\* C8: get_avatar returns the cached path, with no HTTP request, exactly
\* when the avatar file exists and now - mtime < avatar_cache_expiration (an
\* age equal to the expiration is stale); in every other case the download
\* to the user's avatar path is entered.
C8_CachedIffFresh ==
    [][\A c \in Calls :
         (IsAvatar(c) /\ op[c].st = "start" /\ op'[c].st # "start")
            => LET p == AvatarPath(op[c].user) IN
               IF disk[p].exists /\ now - disk[p].mtime < AvatarExpiration
               THEN /\ op'[c].st = "done"
                    /\ op'[c].ret = p
                    /\ pc'[c] = "idle"
                    /\ nreq'[c] = 0
               ELSE /\ op'[c].st = "downloading"
                    /\ pc'[c] = "enter"
                    /\ dest'[c] = p]_vars

C8_Witness ==
    \E c \in Calls : \E d \in Calls \ {c} :
        /\ IsAvatar(c) /\ op[c].st = "done" /\ nreq[c] = 0
        /\ op[c].ret = AvatarPath(op[c].user)
        /\ IsAvatar(d) /\ op[d].st = "downloading" /\ pc[d] = "enter"
        /\ disk[AvatarPath(op[d].user)].exists
        /\ now - disk[AvatarPath(op[d].user)].mtime = AvatarExpiration

\* C9: a get_avatar that went to the network returns the avatar path if its
\* download returned true, and then the whole body is at that path (or what
\* the other call has put there since); it returns null if the download
\* failed, and then it has changed no file.
C9_AvatarDownloadResult ==
    /\ [](\A c \in Calls :
            (IsAvatar(c) /\ op[c].st = "done" /\ pc[c] # "idle")
               => LET p == AvatarPath(op[c].user) IN
                  IF result[c] = "true"
                  THEN /\ op[c].ret = p
                       /\ Complete(disk[p])
                       /\ disk[p].src[1] \in Calls
                  ELSE /\ op[c].ret = Null
                       /\ \A q \in Paths : disk[q].src[1] # c)
    /\ [][\A c \in Calls :
            (IsAvatar(c) /\ result[c] = "pending" /\ result'[c] = "true")
               => LET p == AvatarPath(op[c].user) IN
                  /\ disk'[p] = File(<<c, attempt[c]>>, BodyLen, disk'[p].mtime)
                  /\ \A q \in Paths \ {p} : disk'[q] = disk[q]]_vars

C9_Witness ==
    \E c \in Calls : \E d \in Calls \ {c} :
        /\ IsAvatar(c) /\ op[c].st = "done" /\ result[c] = "false"
        /\ op[c].ret = Null
        /\ disk[AvatarPath(op[c].user)] = OldFile(0)
        /\ IsAvatar(d) /\ op[d].st = "done" /\ result[d] = "true"
        /\ op[d].ret = AvatarPath(op[d].user)
        /\ disk[op[d].ret].src[1] = d

\* ---------------------------------------------------- get_background_image
Min(a, b) == IF a < b THEN a ELSE b

\* random.shuffle(background_urls): every order of the lines.
Shuffles(lines) ==
    LET n == Len(lines)
        bij == {f \in [1 .. n -> 1 .. n] : \A i, j \in 1 .. n : f[i] = f[j] => i = j}
    IN  {[i \in 1 .. n |-> lines[f[i]]] : f \in bij}

\* image_url.startswith("http://") or image_url.startswith("https://")
IsHttp(line) == line \in Urls

CacheHitM(url) == conf.pre_cache /\ disk[BgCachePath(url)].exists

\* `if cache_path.exists()`
CacheHit(url) == disk[BgCachePath(url)].exists

EphemeralM == conf.cleanup

\* `(not pre_cache_enabled) and cleanup_downloads`: download to the ephemeral
\* directory and tell the caller to clean up.
Ephemeral == ~conf.pre_cache /\ conf.cleanup

CandidatesM(order) == order

\* background_urls[:max_attempts] with max_attempts = min(5, len(background_urls))
Candidates(order) == SubSeq(order, 1, Min(MaxBgAttempts, Len(order)))

\* From the call to the loop: the list files are listed, one is picked and
\* read, its lines are shuffled and cut to max_attempts.  No list file, an
\* empty one, or an exception of the listing or reading (`except Exception`)
\* gives None.
BgStart(c) ==
    /\ op[c].kind = "background"
    /\ op[c].st = "start"
    /\ \E ioOk \in BOOLEAN :
         IF ioOk /\ conf.lists # {}
         THEN \E file \in conf.lists : \E order \in Shuffles(file) :
                 op' = [op EXCEPT
                          ![c].st = IF Len(file) = 0 THEN "done" ELSE "next",
                          ![c].cands = Candidates(order),
                          ![c].idx = 1]
         ELSE op' = [op EXCEPT ![c].st = "done"]
    /\ UNCHANGED <<now, fsVars, dlVars, conf, otherVars>>

\* One round of `for image_url in background_urls[:max_attempts]` up to its
\* await: a line that is no http(s) URL is skipped, a cached URL is
\* returned with should_cleanup False, any other one is downloaded to the
\* ephemeral or to the permanent path; past the last candidate, None.
BgNext(c) ==
    /\ op[c].kind = "background"
    /\ op[c].st = "next"
    /\ LET i == op[c].idx
           url == op[c].cands[i]
       IN  IF i > Len(op[c].cands)
           THEN /\ op' = [op EXCEPT ![c].st = "done"]
                /\ UNCHANGED <<pc, dest, retriesArg>>
           ELSE IF ~IsHttp(url)
           THEN /\ op' = [op EXCEPT ![c].idx = i + 1]
                /\ UNCHANGED <<pc, dest, retriesArg>>
           ELSE IF CacheHit(url)
           THEN /\ op' = [op EXCEPT ![c].st = "done",
                                    ![c].ret = BgCachePath(url),
                                    ![c].cleanup = FALSE]
                /\ UNCHANGED <<pc, dest, retriesArg>>
           ELSE /\ op' = [op EXCEPT ![c].st = "downloading",
                                    ![c].cleanup = Ephemeral]
                /\ pc' = [pc EXCEPT ![c] = "enter"]
                /\ dest' = [dest EXCEPT ![c] = IF Ephemeral THEN BgTmpPath(c, i)
                                                ELSE BgCachePath(url)]
                /\ retriesArg' = [retriesArg EXCEPT ![c] = DefaultRetries]
    /\ UNCHANGED <<now, fsVars, retries, attempt, result, nreq, hist, fault,
                   backoff, cancelled, conf, otherVars>>

\* The download of the candidate has ended: ok, and (image_path,
\* should_cleanup) is returned; not ok, and the loop goes on with the next
\* candidate; raised, and `except Exception` returns None; cancelled, and
\* the CancelledError leaves get_background_image.
BgFinish(c) ==
    /\ op[c].kind = "background"
    /\ op[c].st = "downloading"
    /\ pc[c] \in {"returned", "cancelled", "raised"}
    /\ IF pc[c] = "returned" /\ result[c] = "true"
       THEN /\ op' = [op EXCEPT ![c].st = "done", ![c].ret = dest[c]]
            /\ UNCHANGED <<pc, attempt, result, hist, fault, backoff, nreq>>
       ELSE IF pc[c] = "returned"
       THEN /\ op' = [op EXCEPT ![c].st = "next", ![c].idx = @ + 1,
                                ![c].cleanup = FALSE]
            /\ pc' = [pc EXCEPT ![c] = "idle"]
            /\ attempt' = [attempt EXCEPT ![c] = 0]
            /\ result' = [result EXCEPT ![c] = "pending"]
            /\ hist' = [hist EXCEPT ![c] = <<>>]
            /\ fault' = [fault EXCEPT ![c] = FALSE]
            /\ backoff' = [backoff EXCEPT ![c] = 0]
            /\ nreq' = [nreq EXCEPT ![c] = 0]
       ELSE /\ op' = [op EXCEPT
                        ![c].st = IF pc[c] = "cancelled" THEN "cancelled" ELSE "done",
                        ![c].cleanup = FALSE]
            /\ UNCHANGED <<pc, attempt, result, hist, fault, backoff, nreq>>
    /\ UNCHANGED <<now, fsVars, dest, retriesArg, retries, cancelled, conf, otherVars>>

\* A get_background_image call (call 1) next to a download of a URL of both
\* lists into the permanent cache (call 2: what the pre-cache sweep or another request
\* runs at the same time), for every setting of the two options, with or
\* without list files, and with any of the URLs cached beforehand.
InitBackground ==
    /\ now = 0
    /\ \E cached \in SUBSET Urls :
         disk = [p \in Paths |->
                   IF \E u \in cached : p = BgCachePath(u) THEN OldFile(0) ELSE NoFile]
    /\ tmpf = [k \in TmpKeys |-> NoFile]
    /\ orphan = {}
    /\ pc = [c \in Calls |-> IF c = 1 THEN "idle" ELSE "enter"]
    /\ dest = [c \in Calls |-> IF c = 1 THEN Null ELSE BgCachePath("https://b")]
    /\ retriesArg = [c \in Calls |-> IF c = 1 THEN 0 ELSE DefaultRetries]
    /\ retries = [c \in Calls |-> 0]
    /\ attempt = [c \in Calls |-> 0]
    /\ result = [c \in Calls |-> "pending"]
    /\ nreq = [c \in Calls |-> 0]
    /\ hist = [c \in Calls |-> <<>>]
    /\ fault = [c \in Calls |-> FALSE]
    /\ backoff = [c \in Calls |-> 0]
    /\ cancelled = [c \in Calls |-> "no"]
    /\ op = [c \in Calls |-> IF c = 1 THEN [NoOp EXCEPT !.kind = "background"] ELSE NoOp]
    /\ \E pre \in BOOLEAN, cl \in BOOLEAN, ls \in {{}, BgLists} :
         conf = [pre_cache |-> pre, cleanup |-> cl, lists |-> ls,
                 concurrency |-> NoOption]
    /\ NoSweep
    /\ NoTable
    /\ NoMore

NextBackground ==
    \/ \E c \in Calls : BgStart(c)
    \/ \E c \in Calls : BgNext(c)
    \/ \E c \in Calls : Download(c)
    \/ \E c \in Calls : BgFinish(c)
    \/ \E k \in TmpKeys : OrphanOpen(k)

SpecBackground == InitBackground /\ [][NextBackground]_vars

\* A list file of more lines than max_attempts, with repeated URLs and a line
\* that is no URL.
LongList == <<"http://a", "http://a", "https://b", "https://b", "https://b", NotHttp>>

\* get_background_image (call 1) on that list file, for every setting of the
\* options and of the cache, with nothing running next to it.
InitBackgroundLong ==
    /\ now = 0
    /\ \E cached \in SUBSET Urls :
         disk = [p \in Paths |->
                   IF \E u \in cached : p = BgCachePath(u) THEN OldFile(0) ELSE NoFile]
    /\ tmpf = [k \in TmpKeys |-> NoFile]
    /\ orphan = {}
    /\ pc = [c \in Calls |-> "idle"]
    /\ dest = [c \in Calls |-> Null]
    /\ retriesArg = [c \in Calls |-> 0]
    /\ retries = [c \in Calls |-> 0]
    /\ attempt = [c \in Calls |-> 0]
    /\ result = [c \in Calls |-> "pending"]
    /\ nreq = [c \in Calls |-> 0]
    /\ hist = [c \in Calls |-> <<>>]
    /\ fault = [c \in Calls |-> FALSE]
    /\ backoff = [c \in Calls |-> 0]
    /\ cancelled = [c \in Calls |-> "no"]
    /\ op = [c \in Calls |-> IF c = 1 THEN [NoOp EXCEPT !.kind = "background"] ELSE NoOp]
    /\ \E pre \in BOOLEAN, cl \in BOOLEAN :
         conf = [pre_cache |-> pre, cleanup |-> cl, lists |-> {LongList},
                 concurrency |-> NoOption]
    /\ NoSweep
    /\ NoTable
    /\ NoMore

SpecBackgroundLong == InitBackgroundLong /\ [][NextBackground]_vars

\* -------------------------------------------------- properties: background
IsBackground(c) == op[c].kind = "background"

\* C10: when the candidate that get_background comes to has its permanent
\* cache file, the call returns (that cache path, should_cleanup = false) in
\* that very step, with no HTTP request, under every setting of the pre-cache
\* and cleanup options; and a call that has returned looks at no further
\* candidate and issues no request.
C10_CacheHitReturnsAtOnce ==
    /\ [][\A c \in Calls :
            (/\ IsBackground(c)
             /\ op[c].st = "next"
             /\ op[c].idx <= Len(op[c].cands)
             /\ op[c].cands[op[c].idx] \in Urls
             /\ disk[BgCachePath(op[c].cands[op[c].idx])].exists
             /\ op'[c] # op[c])
            => /\ op'[c].st = "done"
               /\ op'[c].ret = BgCachePath(op[c].cands[op[c].idx])
               /\ op'[c].cleanup = FALSE
               /\ op'[c].idx = op[c].idx
               /\ nreq'[c] = nreq[c]
               /\ pc'[c] = pc[c]]_vars
    /\ [][\A c \in Calls :
            (IsBackground(c) /\ op[c].st = "done")
            => op'[c] = op[c] /\ nreq'[c] = nreq[c] /\ pc'[c] = pc[c]]_vars

C10_Witness ==
    \E c \in Calls :
        /\ IsBackground(c)
        /\ op[c].st = "done"
        /\ ~conf.pre_cache /\ conf.cleanup
        /\ op[c].idx < Len(op[c].cands)
        /\ op[c].ret = BgCachePath(op[c].cands[op[c].idx])
        /\ op[c].cleanup = FALSE
        /\ nreq[c] = 0
        /\ disk[op[c].ret].src[1] \in Calls \ {c}

\* `ok` of line 128 for the candidate the call is at.
Downloaded(c) == pc[c] = "returned" /\ result[c] = "true"

\* C11: every non-null result (path, should_cleanup) of get_background has
\* should_cleanup true exactly when the file was downloaded in this call
\* while pre-caching is disabled and cleanup_background_downloads is enabled,
\* and then path is a file of the ephemeral directory under a name of this
\* call's own candidate, holding the body this call received; in every other
\* case should_cleanup is false and path is the permanent cache path of the
\* candidate URL.
C11_CleanupFlagMatchesPath ==
    \A c \in Calls :
        (IsBackground(c) /\ op[c].st = "done" /\ op[c].ret # Null)
        => LET url == op[c].cands[op[c].idx]
           IN  /\ op[c].cleanup
                    = (Downloaded(c) /\ ~conf.pre_cache /\ conf.cleanup)
               /\ op[c].cleanup
                    => /\ op[c].ret = BgTmpPath(c, op[c].idx)
                       /\ op[c].ret \in BgTmpPaths
                       /\ Complete(disk[op[c].ret])
                       /\ disk[op[c].ret].src[1] = c
               /\ ~op[c].cleanup
                    => /\ url \in Urls
                       /\ op[c].ret = BgCachePath(url)
                       /\ disk[op[c].ret].exists

\* An ephemeral result after an earlier candidate had failed.
C11_Witness ==
    \E c \in Calls :
        /\ IsBackground(c)
        /\ op[c].st = "done"
        /\ op[c].cleanup
        /\ op[c].idx > 1
        /\ op[c].ret \in BgTmpPaths
        /\ Downloaded(c)

\* How often a line occurs in a sequence of lines.
Count(lines, v) == Cardinality({i \in DOMAIN lines : lines[i] = v})

\* No file at a path of the directories, and no temp sibling, that call c wrote.
NoFileOf(c) ==
    /\ \A p \in Paths : ~(disk[p].exists /\ disk[p].src[1] = c)
    /\ \A k \in TmpKeys : k[1] = c => ~tmpf[k].exists /\ k \notin orphan

\* C12: for the chosen list file of n non-blank lines the candidates of
\* get_background are min(5, n) of its lines in some order; they are gone
\* through one by one, a request is issued only for a candidate that is an
\* http(s) URL, the call moves to the next candidate only past a line that is
\* no URL or a download that failed, it ends with a path only at a cached or
\* successfully downloaded candidate and then stops, it ends with null only
\* before the loop, past the last candidate or at a download that raised,
\* and after null no file written by the call is in the directories.
C12_BoundedAttemptsInOrder ==
    /\ [](\A c \in Calls :
            (IsBackground(c) /\ op[c].cands # <<>>)
            => \E file \in conf.lists :
                  /\ Len(op[c].cands) = Min(5, Len(file))
                  /\ \A v \in Urls \cup {NotHttp} :
                        Count(op[c].cands, v) <= Count(file, v))
    /\ [](\A c \in Calls :
            (IsBackground(c) /\ op[c].st = "done" /\ op[c].ret = Null)
            => NoFileOf(c))
    /\ [][\A c \in Calls : IsBackground(c) =>
            LET i == op[c].idx
                n == Len(op[c].cands)
            IN  /\ nreq'[c] > nreq[c]
                    => /\ op[c].st = "downloading"
                       /\ i <= n
                       /\ op[c].cands[i] \in Urls
                /\ (op[c].st # "start" /\ op'[c].idx # i)
                    => /\ op'[c].idx = i + 1
                       /\ i <= n
                       /\ \/ op[c].cands[i] \notin Urls
                          \/ /\ op[c].st = "downloading"
                             /\ pc[c] = "returned"
                             /\ result[c] = "false"
                /\ (op[c].st # "done" /\ op'[c].st = "done" /\ op'[c].ret # Null)
                    => /\ i <= n
                       /\ op'[c].idx = i
                       /\ op[c].cands[i] \in Urls
                       /\ \/ /\ op[c].st = "next"
                             /\ disk[BgCachePath(op[c].cands[i])].exists
                          \/ op[c].st = "downloading" /\ Downloaded(c)
                /\ (op[c].st # "done" /\ op'[c].st = "done" /\ op'[c].ret = Null)
                    => \/ op[c].st = "start"
                       \/ i > n
                       \/ op[c].st = "downloading" /\ pc[c] = "raised"
                /\ op[c].st = "done"
                    => op'[c] = op[c] /\ nreq'[c] = nreq[c]]_vars

\* Null after five URLs of a six-line file, none of them cached, were tried.
C12_Witness ==
    \E c \in Calls :
        /\ IsBackground(c)
        /\ op[c].st = "done"
        /\ op[c].ret = Null
        /\ Len(op[c].cands) = 5
        /\ \A i \in 1 .. 5 : op[c].cands[i] \in Urls
        /\ op[c].idx = 6
        /\ \A u \in Urls : ~disk[BgCachePath(u)].exists
        /\ \E file \in conf.lists : Len(file) = 6

\* ------------------------------------------ _pre_cache_background_images
\* Values of the pre_cache_concurrency option: an integer, something int()
\* rejects, or nothing.
Option(v) == [kind |-> "int", val |-> v]
JunkOption == [kind |-> "junk", val |-> 0]
Options == {NoOption, JunkOption} \cup {Option(v) : v \in {0, 1, 2, 11}}

ClampConcurrencyM(o) == 10

\* int(config.get("pre_cache_concurrency", 3)), 3 when int() raises, then
\* max(1, min(concurrency, 10)).
ClampConcurrency(o) ==
    LET c == IF o.kind = "int" THEN o.val ELSE DefaultConcurrency
    IN  IF c > MaxConcurrency THEN MaxConcurrency ELSE IF c < 1 THEN 1 ELSE c

\* sorted(urls): the order of Python's string comparison.
UrlOrder == <<"http://a", "https://b">>
IsIn(S) == [u \in Urls |-> u \in S]
SortedUrls(S) == LET in == IsIn(S) IN SelectSeq(UrlOrder, LAMBDA u : in[u])

\* The set of http(s) lines of the list files that could be read.
HttpLines(files) == {u \in Urls : \E f \in files : \E i \in DOMAIN f : f[i] = u}

\* to_download: the URLs whose cache file does not exist, in order.
ToDownload(urls) ==
    LET absent == [u \in Urls |-> ~disk[BgCachePath(u)].exists]
    IN  SelectSeq(urls, LAMBDA u : absent[u])

IsWorker(c) == op[c].kind = "sweep"
WorkerUrl(c) == op[c].cands[1]
\* The _dl coroutines inside `async with sem`.
Holders == {c \in Calls : IsWorker(c) /\ op[c].st = "downloading"}
SemFree == Cardinality(Holders) < sw.sem

\* gather(*(_dl(url, dest) for url, dest in to_download)): one _dl task per
\* entry of to_download.
Workers(todo) ==
    [c \in Calls |->
        IF c <= Len(todo)
        THEN [NoOp EXCEPT !.kind = "sweep", !.cands = <<todo[c]>>, !.idx = 1]
        ELSE NoOp]

\* _collect_all_background_urls and what follows it up to the next await:
\* os.listdir in a thread, outside every try block; each list file read
\* inside one (a file that cannot be read is skipped); no URL, and the task
\* returns; else the concurrency and to_download are computed and, if the
\* object has put_kv_data, the "running" status is written.
SwCollect ==
    /\ sw.st = "collecting"
    /\ \E listOk \in BOOLEAN :
         IF ~listOk
         THEN sw' = [sw EXCEPT !.st = "raised"]
         ELSE \E readable \in SUBSET conf.lists :
                LET urls == SortedUrls(HttpLines(readable))
                IN  IF Len(urls) = 0
                    THEN sw' = [sw EXCEPT !.st = "returned"]
                    ELSE sw' = [sw EXCEPT
                                  !.st = IF sw.hasKv THEN "putRunning" ELSE "spawn",
                                  !.urls = urls,
                                  !.todo = ToDownload(urls),
                                  !.sem = ClampConcurrency(conf.concurrency)]
    /\ UNCHANGED <<now, fsVars, dlVars, op, conf, moreVars, kv, tableVars>>

\* await put_kv_data("bg_cache_status", {"status": "running", ...}): an
\* Exception of it is logged.
SwPutRunning(ok) ==
    /\ sw.st = "putRunning"
    /\ kv' = IF ok THEN "running" ELSE kv
    /\ sw' = [sw EXCEPT !.st = "spawn"]
    /\ UNCHANGED <<now, fsVars, dlVars, op, conf, moreVars, tableVars>>

\* sem = asyncio.Semaphore(concurrency); await asyncio.gather(...).
SwSpawn ==
    /\ sw.st = "spawn"
    /\ sw' = [sw EXCEPT !.st = "gathering"]
    /\ op' = Workers(sw.todo)
    /\ UNCHANGED <<now, fsVars, dlVars, conf, moreVars, kv, tableVars>>

SwRecheckM(url) == FALSE

\* The second `if dest.exists()`, inside `async with sem`.
SwRecheck(url) == disk[BgCachePath(url)].exists

\* _download_to_path(url, dest, label) is called.
SwDownload(c) ==
    /\ op' = [op EXCEPT ![c].st = "downloading"]
    /\ pc' = [pc EXCEPT ![c] = "enter"]
    /\ dest' = [dest EXCEPT ![c] = BgCachePath(WorkerUrl(c))]
    /\ retriesArg' = [retriesArg EXCEPT ![c] = DefaultRetries]

\* A _dl task runs up to its first await: True if dest exists; with a free
\* semaphore it takes it and calls the download in the same run (acquire
\* does not suspend then); otherwise it waits for the semaphore.
SwDlBegin(c) ==
    /\ IsWorker(c)
    /\ op[c].st = "start"
    /\ ~sw.req
    /\ IF disk[BgCachePath(WorkerUrl(c))].exists
       THEN /\ op' = [op EXCEPT ![c].st = "done"]
            /\ UNCHANGED <<pc, dest, retriesArg>>
       ELSE IF SemFree
       THEN SwDownload(c)
       ELSE /\ op' = [op EXCEPT ![c].st = "waiting"]
            /\ UNCHANGED <<pc, dest, retriesArg>>
    /\ UNCHANGED <<now, fsVars, retries, attempt, result, nreq, hist, fault,
                   backoff, cancelled, conf, otherVars>>

\* A waiting _dl task gets the semaphore: dest is looked at again.
SwAcquire(c) ==
    /\ IsWorker(c)
    /\ op[c].st = "waiting"
    /\ ~sw.req
    /\ SemFree
    /\ IF SwRecheck(WorkerUrl(c))
       THEN /\ op' = [op EXCEPT ![c].st = "done"]
            /\ UNCHANGED <<pc, dest, retriesArg>>
       ELSE SwDownload(c)
    /\ UNCHANGED <<now, fsVars, retries, attempt, result, nreq, hist, fault,
                   backoff, cancelled, conf, otherVars>>

\* A step of a worker's download.  Once the sweep task is cancelled a worker
\* that waits at an await gets the CancelledError there and does nothing else.
SwStep(c) ==
    /\ IsWorker(c)
    /\ op[c].st = "downloading"
    /\ IF sw.req /\ pc[c] \in SuspensionPoints
       THEN DlCancel(c)
       ELSE \/ DlEnter(c)
            \/ DlRequest(c)
            \/ \E status \in Statuses \cup {NoResponse} : DlRespond(c, status)
            \/ \E ok \in BOOLEAN : DlOpen(c, ok)
            \/ \E ok \in BOOLEAN : DlWrite(c, ok)
            \/ DlClose(c)
            \/ \E ok \in BOOLEAN : DlRename(c, ok)
            \/ DlBackoff(c)

\* The download has ended and the semaphore is released: the result, or the
\* exception (return_exceptions=True), goes to gather.
SwDlFinish(c) ==
    /\ IsWorker(c)
    /\ op[c].st = "downloading"
    /\ pc[c] \in {"returned", "raised", "cancelled"}
    /\ op' = [op EXCEPT ![c].st = IF pc[c] = "cancelled" THEN "cancelled" ELSE "done"]
    /\ UNCHANGED <<now, fsVars, dlVars, conf, otherVars>>

\* A _dl task that has not run yet, or waits for the semaphore, when the
\* sweep is cancelled.
SwDlCancel(c) ==
    /\ IsWorker(c)
    /\ op[c].st \in {"start", "waiting"}
    /\ sw.req
    /\ op' = [op EXCEPT ![c].st = "cancelled"]
    /\ UNCHANGED <<now, fsVars, dlVars, conf, otherVars>>

FinalStatus == IF sw.flag THEN "cancelled" ELSE "done"

\* gather ends when every _dl task has: with the results, or (cancelled)
\* with CancelledError, which sets `cancelled = True` and is re-raised
\* through the finally block.
SwGatherEnd ==
    /\ sw.st = "gathering"
    /\ \A c \in Calls : IsWorker(c) => op[c].st \in {"done", "cancelled"}
    /\ sw' = [sw EXCEPT !.flag = sw.req,
                        !.st = IF sw.hasKv THEN "putFinal"
                               ELSE IF sw.req THEN "cancelled" ELSE "returned"]
    /\ UNCHANGED <<now, fsVars, dlVars, op, conf, moreVars, kv, tableVars>>

\* The finally block: put_kv_data with "cancelled" if cancelled else "done";
\* an Exception of it is logged.
SwPutFinal(ok) ==
    /\ sw.st = "putFinal"
    /\ kv' = IF ok THEN FinalStatus ELSE kv
    /\ sw' = [sw EXCEPT !.st = IF sw.flag THEN "cancelled" ELSE "returned"]
    /\ UNCHANGED <<now, fsVars, dlVars, op, conf, moreVars, tableVars>>

SwAwaits == {"collecting", "putRunning", "gathering", "putFinal"}

\* _precache_task.cancel() while the task waits at one of its awaits.  Only
\* the await of gather is inside a handler of CancelledError; at the others
\* the CancelledError leaves the task (`except Exception` does not catch
\* it), a put_kv_data that was under way having taken effect or not.
CancelTask ==
    /\ sw.st \in SwAwaits
    /\ ~sw.req
    /\ IF sw.st = "gathering"
       THEN /\ sw' = [sw EXCEPT !.req = TRUE]
            /\ UNCHANGED kv
       ELSE /\ sw' = [sw EXCEPT !.req = TRUE, !.st = "cancelled"]
            /\ \E put \in BOOLEAN :
                 kv' = IF ~put \/ sw.st = "collecting" THEN kv
                       ELSE IF sw.st = "putRunning" THEN "running"
                       ELSE FinalStatus

SwCancel ==
    /\ CancelTask
    /\ UNCHANGED <<now, fsVars, dlVars, op, conf, moreVars, tableVars>>

\* A download of a request (get_background_image with a permanent
\* destination) that runs next to the sweep renames its file into the cache,
\* after to_download was computed and before the _dl task of that URL has
\* made its last check (a later rename changes nothing the sweep looks at).
OtherRename(url) ==
    /\ \E c \in Calls :
         IsWorker(c) /\ WorkerUrl(c) = url /\ op[c].st \in {"start", "waiting"}
    /\ ~disk[BgCachePath(url)].exists
    /\ disk' = [disk EXCEPT ![BgCachePath(url)] = OldFile(now)]
    /\ UNCHANGED <<now, tmpf, orphan, dlVars, op, conf, otherVars>>

\* A sweep task that has just been started, for every value of the
\* concurrency option, with and without put_kv_data, with any of the URLs
\* cached beforehand.
InitSweep ==
    /\ now = 0
    /\ \E cached \in SUBSET Urls :
         disk = [p \in Paths |->
                   IF \E u \in cached : p = BgCachePath(u) THEN OldFile(0) ELSE NoFile]
    /\ tmpf = [k \in TmpKeys |-> NoFile]
    /\ orphan = {}
    /\ pc = [c \in Calls |-> "idle"]
    /\ dest = [c \in Calls |-> Null]
    /\ retriesArg = [c \in Calls |-> 0]
    /\ retries = [c \in Calls |-> 0]
    /\ attempt = [c \in Calls |-> 0]
    /\ result = [c \in Calls |-> "pending"]
    /\ nreq = [c \in Calls |-> 0]
    /\ hist = [c \in Calls |-> <<>>]
    /\ fault = [c \in Calls |-> FALSE]
    /\ backoff = [c \in Calls |-> 0]
    /\ cancelled = [c \in Calls |-> "no"]
    /\ op = [c \in Calls |-> NoOp]
    /\ \E o \in Options :
         conf = [pre_cache |-> TRUE, cleanup |-> TRUE, lists |-> BgLists,
                 concurrency |-> o]
    /\ \E has \in BOOLEAN : sw = [NoSw EXCEPT !.st = "collecting", !.hasKv = has]
    /\ kv = "absent"
    /\ NoTable
    /\ NoMore

NextSweep ==
    \/ SwCollect
    \/ \E ok \in BOOLEAN : SwPutRunning(ok)
    \/ SwSpawn
    \/ \E c \in Calls : SwDlBegin(c)
    \/ \E c \in Calls : SwAcquire(c)
    \/ \E c \in Calls : SwStep(c)
    \/ \E c \in Calls : SwDlFinish(c)
    \/ \E c \in Calls : SwDlCancel(c)
    \/ SwGatherEnd
    \/ \E ok \in BOOLEAN : SwPutFinal(ok)
    \/ SwCancel
    \/ \E url \in Urls : OtherRename(url)
    \/ \E k \in TmpKeys : OrphanOpen(k)

SpecSweep == InitSweep /\ [][NextSweep]_vars

\* ------------------------------------------------------ properties: sweep
\* Sweep downloads in flight: _download_to_path called and not yet left.
InFlight ==
    {c \in Calls : IsWorker(c) /\ pc[c] \notin {"idle", "returned", "raised", "cancelled"}}

\* C13: during a pre-cache sweep the number of sweep downloads in flight is
\* never above c, where c is pre_cache_concurrency clamped to [1, 10], or 3
\* when the option is absent or cannot be converted to an integer; and the
\* semaphore of the sweep has exactly that capacity.
C13_BoundedConcurrency ==
    LET o == conf.concurrency
        c == IF o.kind # "int" THEN 3
             ELSE IF o.val < 1 THEN 1
             ELSE IF o.val > 10 THEN 10
             ELSE o.val
    IN  sw.st \in {"spawn", "gathering", "putFinal", "returned", "cancelled"}
        => (sw.sem # 0 => sw.sem = c) /\ Cardinality(InFlight) <= c

\* One download in flight and the other _dl task kept waiting by a
\* concurrency of 1 that came from clamping 0.
C13_Witness ==
    /\ sw.st = "gathering"
    /\ conf.concurrency = Option(0)
    /\ Cardinality(InFlight) = 1
    /\ \E c \in Calls : IsWorker(c) /\ op[c].st = "waiting"

\* C14: a sweep task that was cancelled after it had started has 'cancelled'
\* as the status it reported last, at whichever await the cancellation
\* arrived, and 'done' is the status only of a sweep that ran to completion
\* without being cancelled.
C14_CancelledStatus ==
    /\ sw.st = "cancelled" => kv = "cancelled"
    /\ kv = "done" => sw.st = "returned" /\ ~sw.req

\* C15: the sweep task never ends with an exception other than the
\* cancellation, whatever fails inside it.
C15_NoExceptionEscapes == sw.st # "raised"

\* C16: within one sweep the _dl tasks are for pairwise distinct http(s)
\* URLs of the list files, each of them calls the download at most once, and
\* a download is started only for a URL whose permanent cache file does not
\* exist in the step in which its task has the semaphore and starts it, a
\* file that appeared after to_download was computed included.
C16_NoDuplicateDownload ==
    /\ [](\A c, d \in Calls :
            (IsWorker(c) /\ IsWorker(d) /\ c # d)
            => /\ WorkerUrl(c) # WorkerUrl(d)
               /\ \E f \in conf.lists : \E i \in DOMAIN f : f[i] = WorkerUrl(c)
               /\ WorkerUrl(c) \in {"http://a", "https://b"})
    /\ [][\A c \in Calls : IsWorker(c) =>
            /\ (pc'[c] = "enter" /\ pc[c] # "enter")
                 => /\ ~disk[BgCachePath(WorkerUrl(c))].exists
                    /\ op[c].st \in {"start", "waiting"}
                    /\ Cardinality(Holders) < sw.sem
                    /\ dest'[c] = BgCachePath(WorkerUrl(c))
            /\ op[c].st \in {"downloading", "done", "cancelled"}
                 => op'[c].st \notin {"start", "waiting"}
            /\ op'[c].cands = op[c].cands]_vars

\* A _dl task that waited while the other one downloaded finds the
\* semaphore free and its file there, put by a download outside the sweep.
C16_Witness ==
    \E c, d \in Calls :
        /\ IsWorker(c) /\ IsWorker(d)
        /\ op[c].st = "waiting"
        /\ op[d].st = "done"
        /\ nreq[d] >= 1
        /\ SemFree
        /\ ~sw.req
        /\ disk[BgCachePath(WorkerUrl(c))].exists

\* ------------------------------------- _load_jrys_data / _save_jrys_data
\* Where a handler goes on once `self.jrys_data = await
\* self.resources._load_jrys_data()` has returned (main.py:46, main.py:88).
Loaded(c) == IF req[c].kind = "last" THEN "lookup" ELSE "fetch"

\* `if self.is_data_loaded: return self.jrys_data`, assigned to the plugin's
\* jrys_data by the caller (main.py:88); otherwise an empty table is written
\* if the file does not exist, and the file is opened for reading.
LdCheck(c) ==
    /\ req[c].st = "start"
    /\ IF mem.loaded
       THEN /\ req' = [req EXCEPT ![c].st = Loaded(c), ![c].ret = mem.data]
            /\ mem' = [mem EXCEPT !.plug = mem.data]
            /\ UNCHANGED jfile
       ELSE /\ req' = [req EXCEPT ![c].st = "reading"]
            /\ jfile' = IF jfile.kind = "absent"
                        THEN JFile("text", Dumps(Dict(<<>>)))
                        ELSE jfile
            /\ UNCHANGED mem
    /\ UNCHANGED <<now, fsVars, dlVars, op, conf, moreVars, sw, kv, heap>>

\* aiofiles.open(jrys_path, "r", encoding="utf-8") and f.read(): the text;
\* PermissionError or UnicodeDecodeError, which no handler of the function
\* catches; FileNotFoundError, for which {} is returned.
LdRead(c) ==
    /\ req[c].st = "reading"
    /\ IF jfile.kind = "text"
       THEN /\ req' = [req EXCEPT ![c].st = "parsing", ![c].content = jfile.text]
            /\ mem' = [mem EXCEPT !.reads = @ + 1]
            /\ UNCHANGED heap
       ELSE IF jfile.kind \in {"unreadable", "binary"}
       THEN /\ req' = [req EXCEPT ![c].st = "raised"]
            /\ UNCHANGED <<mem, heap>>
       ELSE /\ req' = [req EXCEPT ![c].st = Loaded(c), ![c].ret = c]
            /\ heap' = [heap EXCEPT ![c] = Dict(<<>>)]
            /\ mem' = [mem EXCEPT !.plug = c]
    /\ UNCHANGED <<now, fsVars, dlVars, op, conf, moreVars, sw, kv, jfile>>

\* self.jrys_data = await asyncio.to_thread(json.loads, content);
\* self.is_data_loaded = True; JSONDecodeError returns a new {}.
LdParse(c) ==
    /\ req[c].st = "parsing"
    /\ LET r == Loads(req[c].content)
       IN  IF r.ok
           THEN /\ heap' = [heap EXCEPT ![c] = r.v]
                /\ mem' = [mem EXCEPT !.data = c, !.loaded = TRUE]
                /\ req' = [req EXCEPT ![c].st = "closing"]
           ELSE /\ heap' = [heap EXCEPT ![c] = Dict(<<>>)]
                /\ mem' = [mem EXCEPT !.plug = c]
                /\ req' = [req EXCEPT ![c].st = Loaded(c), ![c].ret = c]
    /\ UNCHANGED <<now, fsVars, dlVars, op, conf, moreVars, sw, kv, jfile>>

\* The file is closed (an await), then `return self.jrys_data`.
LdReturn(c) ==
    /\ req[c].st = "closing"
    /\ req' = [req EXCEPT ![c].st = Loaded(c), ![c].ret = mem.data]
    /\ mem' = [mem EXCEPT !.plug = mem.data]
    /\ UNCHANGED <<now, fsVars, dlVars, op, conf, moreVars, sw, kv, jfile, heap>>

\* f.write(content) of a file object opened with "w", at its position 0:
\* what another file object wrote beyond the end of content stays.
Overlay(content, text) ==
    content \o SubSeq(text, Len(content) + 1, Len(text))

\* aiofiles.open(jrys_path, "w"): the file is truncated before the table
\* is serialised; PermissionError is logged (`except Exception`).
SvOpen(c) ==
    /\ req[c].st = "saveOpen"
    /\ IF jfile.kind = "unreadable"
       THEN /\ req' = [req EXCEPT ![c].st = "finally", ![c].cleanup = FALSE]
            /\ UNCHANGED jfile
       ELSE /\ req' = [req EXCEPT ![c].st = "saveDump"]
            /\ jfile' = JFile("text", <<>>)
    /\ UNCHANGED <<now, fsVars, dlVars, op, conf, moreVars, sw, kv, heap, mem>>

\* asyncio.to_thread(json.dumps, self.jrys_data, ...): the thread starts to
\* serialise the table as it is now; with jrys_data never assigned the
\* AttributeError is logged and nothing is written.
SvDump(c) ==
    /\ req[c].st = "saveDump"
    /\ req' = IF mem.data = NoRef
              THEN [req EXCEPT ![c].st = "finally", ![c].cleanup = FALSE]
              ELSE [req EXCEPT ![c].st = "saveDumping", ![c].obj = mem.data,
                               ![c].content = Dumps(heap[mem.data])]
    /\ UNCHANGED <<now, fsVars, dlVars, op, conf, moreVars, sw, kv, jfile, heap, mem>>

\* The thread has finished.  The event loop may have changed the table
\* while the thread went through it: the text is that of the table as it
\* was or as it is now, or the encoder raised RuntimeError (dictionary
\* changed size during iteration), which is logged with nothing written.
SvDumped(c) ==
    /\ req[c].st = "saveDumping"
    /\ LET text == Dumps(heap[req[c].obj])
       IN  \/ req' = [req EXCEPT ![c].st = "saveWrite"]
           \/ /\ text # req[c].content
              /\ \/ req' = [req EXCEPT ![c].st = "saveWrite", ![c].content = text]
                 \/ req' = [req EXCEPT ![c].st = "finally", ![c].cleanup = FALSE,
                                       ![c].content = <<>>, ![c].obj = NoRef]
    /\ UNCHANGED <<now, fsVars, dlVars, op, conf, moreVars, sw, kv, jfile, heap, mem>>

\* f.write(content) and the close of the file.  Back in jrys,
\* background_should_cleanup = False (main.py:173).
SvWrite(c) ==
    /\ req[c].st = "saveWrite"
    /\ jfile' = JFile("text", Overlay(req[c].content, jfile.text))
    /\ req' = [req EXCEPT ![c].st = "finally", ![c].cleanup = FALSE,
                          ![c].content = <<>>, ![c].obj = NoRef]
    /\ UNCHANGED <<now, fsVars, dlVars, op, conf, moreVars, sw, kv, heap, mem>>

\* ------------------------------------------------------ JrysPlugin.jrys
LastKey == "_user_last_images"
\* A key that does not start with "_": a score with its entries.
HasFortune(d) == \E i \in DOMAIN d.items : d.items[i][1] # LastKey
\* user_last_images[user_id] = rec
SetRec(d, user, rec) ==
    Dict(Put(d.items, LastKey, Dict(Put(Get(d, LastKey).items, user, rec))))
Truthy(v) == ~(v.t = "bool" /\ v.s = "False") /\ ~(v.t = "str" /\ v.s = "")
\* The record of a user in a table, if it has one.
HasRec(d, u) == Has(d, LastKey) /\ Has(Get(d, LastKey), u)
RecOf(d, u) == Get(Get(d, LastKey), u)

\* gather(get_avatar_img, get_background_image) and the checks of its
\* results.  Both functions catch every Exception and return None, so the
\* results are an avatar path or None and a (path, flag) pair or None; the
\* isinstance(..., Exception) branches are not taken.  A background of None
\* ends the request with a message; an avatar of None is not looked at and
\* the request goes on.  The background is a cache hit, an ephemeral
\* download or a download into the cache.
RqFetch(c) ==
    /\ req[c].st = "fetch"
    /\ \E av \in BOOLEAN, ok \in BOOLEAN, url \in Urls :
         IF ~ok
         THEN /\ req' = [req EXCEPT ![c].st = "done", ![c].avatar = av,
                                    ![c].msg = "error"]
              /\ UNCHANGED disk
         ELSE IF CacheHit(url) \/ ~Ephemeral
         THEN /\ req' = [req EXCEPT ![c].st = "render", ![c].avatar = av,
                                    ![c].bg = BgCachePath(url),
                                    ![c].cleanup = FALSE]
              /\ disk' = IF CacheHit(url) THEN disk
                         ELSE [disk EXCEPT ![BgCachePath(url)] = File(<<c, 0>>, BodyLen, now)]
         ELSE /\ req' = [req EXCEPT ![c].st = "render", ![c].avatar = av,
                                    ![c].bg = BgTmpPath(c, 1),
                                    ![c].cleanup = TRUE]
              /\ disk' = [disk EXCEPT ![BgTmpPath(c, 1)] = File(<<c, 0>>, BodyLen, now)]
    /\ UNCHANGED <<now, tmpf, orphan, dlVars, op, conf, moreVars, sw, kv, jfile, heap, mem>>

\* to_thread(generate_image_sync, ..., self.jrys_data): None for a table
\* that is empty or has no score key, or when the drawing fails; an avatar
\* of None is swallowed by draw_avatar_img and the poster is drawn without
\* it.  The poster is yielded; an exception thrown into the generator there
\* is answered with the error message (`except Exception`).
RqRender(c) ==
    /\ req[c].st = "render"
    /\ \E out \in {"poster", "none", "thrown"} :
         req' = IF out = "poster" /\ HasFortune(heap[mem.plug])
                THEN [req EXCEPT ![c].st = "record", ![c].msg = "poster"]
                ELSE [req EXCEPT ![c].st = "finally", ![c].msg = "error"]
    /\ UNCHANGED <<now, fsVars, dlVars, op, conf, moreVars, sw, kv, jfile, heap, mem>>

OldCleanupM(old) == TRUE

\* `old_info.get("should_cleanup")`
OldCleanup(old) == Truthy(Get(old, "should_cleanup"))

\* main.py 151-169 up to the first await: the section is created if it is
\* missing; an old record of the user that is to be cleaned up, has another
\* path and whose file exists is removed (an await); otherwise the record
\* is set at once.
RqRecord(c) ==
    /\ req[c].st = "record"
    /\ LET o == mem.plug
           d == IF Has(heap[o], LastKey) THEN heap[o]
                ELSE Dict(Put(heap[o].items, LastKey, Dict(<<>>)))
           last == Get(d, LastKey)
           old == Get(last, req[c].user)
       IN  IF /\ Has(last, req[c].user)
              /\ OldCleanup(old)
              /\ Truthy(Get(old, "path"))
              /\ Get(old, "path").s # PathStr(req[c].bg)
              /\ Exists(Get(old, "path").s)
           THEN /\ heap' = [heap EXCEPT ![o] = d]
                /\ req' = [req EXCEPT ![c].st = "removing", ![c].tbl = o,
                                      ![c].old = Get(old, "path").s]
           ELSE /\ heap' = [heap EXCEPT
                              ![o] = SetRec(d, req[c].user,
                                            LastRec(req[c].bg, req[c].cleanup))]
                /\ req' = [req EXCEPT ![c].st = "saveOpen", ![c].tbl = o]
    /\ UNCHANGED <<now, fsVars, dlVars, op, conf, moreVars, sw, kv, jfile, mem>>

\* aiofiles.os.remove(old_path) runs in its thread (FileNotFoundError is
\* swallowed).
RqRemove(c) ==
    /\ req[c].st = "removing"
    /\ disk' = [disk EXCEPT ![PathOf(req[c].old)] = NoFile]
    /\ req' = [req EXCEPT ![c].st = "removed"]
    /\ UNCHANGED <<now, tmpf, orphan, dlVars, op, conf, moreVars, sw, kv, jfile, heap, mem>>

\* Back from that await, the record is set in the section the request holds.
RqRemoved(c) ==
    /\ req[c].st = "removed"
    /\ heap' = [heap EXCEPT
                  ![req[c].tbl] = SetRec(@, req[c].user,
                                         LastRec(req[c].bg, req[c].cleanup))]
    /\ req' = [req EXCEPT ![c].st = "saveOpen"]
    /\ UNCHANGED <<now, fsVars, dlVars, op, conf, moreVars, sw, kv, jfile, mem>>

FinallyRemovesM(c) == FALSE

\* `background_should_cleanup and background_path and
\* os.path.exists(background_path)`
FinallyRemoves(c) ==
    req[c].cleanup /\ req[c].bg # Null /\ disk[req[c].bg].exists

\* The finally block: the background is removed if background_should_cleanup
\* is still set.
RqFinally(c) ==
    /\ req[c].st = "finally"
    /\ disk' = IF FinallyRemoves(c)
               THEN [disk EXCEPT ![req[c].bg] = NoFile]
               ELSE disk
    /\ req' = [req EXCEPT ![c].st = "done"]
    /\ mem' = IF req[c].msg = "poster"
              THEN [mem EXCEPT !.won = @ \cup {<<req[c].user, req[c].bg>>}]
              ELSE mem
    /\ UNCHANGED <<now, tmpf, orphan, dlVars, op, conf, moreVars, sw, kv, jfile, heap>>

\* ------------------------------------ JrysPlugin.jrys_last_command_handler
\* The backgrounds of the renders of user u that have returned with
\* success, and whether a render of u is under way (history).
WonBy(u) == {p \in Paths : <<u, p>> \in mem.won}
Rendering(u) ==
    \E d \in Calls : /\ req[d].kind = "render" /\ req[d].user = u
                      /\ req[d].st \notin {"idle", "done", "raised"}

\* A /jrys_last of some user arrives on a connection whose render request
\* has returned.
LastStart(c) ==
    /\ req[c].kind = "render"
    /\ req[c].st = "done"
    /\ \E u \in Users :
         req' = [req EXCEPT ![c] = [NoReq EXCEPT !.kind = "last", !.st = "start",
                                                 !.user = u,
                                                 !.seen = WonBy(u),
                                                 !.quiet = ~Rendering(u)]]
    /\ UNCHANGED <<now, fsVars, dlVars, op, conf, moreVars, sw, kv, jfile, heap, mem>>

\* main.py 47-59, on the table the load has just returned: no record of the
\* user, a record whose path is empty or whose file is gone, or the image.
LastLookup(c) ==
    /\ req[c].st = "lookup"
    /\ LET d == heap[req[c].ret]
           last == IF Has(d, LastKey) THEN Get(d, LastKey) ELSE Dict(<<>>)
           path == Get(Get(last, req[c].user), "path")
       IN  req' = IF ~Has(last, req[c].user)
                  THEN [req EXCEPT ![c].st = "done", ![c].msg = "no_record"]
                  ELSE IF ~Truthy(path) \/ ~Exists(path.s)
                  THEN [req EXCEPT ![c].st = "done", ![c].msg = "missing"]
                  ELSE [req EXCEPT ![c].st = "done", ![c].msg = "image",
                                   ![c].img = path.s]
    /\ UNCHANGED <<now, fsVars, dlVars, op, conf, moreVars, sw, kv, jfile, heap, mem>>

\* The ephemeral background of an earlier request, and tables as the plugin
\* ships and writes them: scores only, or with a last image of user u1.
OldTmp == BgTmpPath(2, MaxBgAttempts)
TableA == Dict(<< <<"56", Str("entries")>> >>)
TableB == Dict(Put(TableA.items, LastKey, Dict(<< <<"u1", LastRec(OldTmp, TRUE)>> >>)))
JFiles ==
    {JFile("text", Dumps(TableA)), JFile("text", Dumps(TableB)),
     JFile("text", <<Tok("p", "{")>>), JFile("binary", <<>>),
     JFile("unreadable", <<>>), JFile("absent", <<>>)}

\* Two requests that may overlap or follow one another, of one user or of
\* two, in a process that has not loaded the table yet, for every kind of
\* jrys.json and both background policies; the background of http://a is
\* in the permanent cache and the ephemeral file of an earlier request is
\* on disk.
InitTable ==
    /\ now = 0
    /\ disk = [p \in Paths |->
                 IF p = OldTmp \/ p = BgCachePath("http://a")
                 THEN OldFile(0) ELSE NoFile]
    /\ tmpf = [k \in TmpKeys |-> NoFile]
    /\ orphan = {}
    /\ pc = [c \in Calls |-> "idle"]
    /\ dest = [c \in Calls |-> Null]
    /\ retriesArg = [c \in Calls |-> 0]
    /\ retries = [c \in Calls |-> 0]
    /\ attempt = [c \in Calls |-> 0]
    /\ result = [c \in Calls |-> "pending"]
    /\ nreq = [c \in Calls |-> 0]
    /\ hist = [c \in Calls |-> <<>>]
    /\ fault = [c \in Calls |-> FALSE]
    /\ backoff = [c \in Calls |-> 0]
    /\ cancelled = [c \in Calls |-> "no"]
    /\ op = [c \in Calls |-> NoOp]
    /\ \E pre \in BOOLEAN : conf = [NoConf EXCEPT !.pre_cache = pre]
    /\ NoSweep
    /\ NoMore
    /\ jfile \in JFiles
    /\ heap = [c \in Calls |-> Dict(<<>>)]
    /\ mem = [NoMem EXCEPT
                !.file0 = IF jfile.kind = "absent" THEN "absent"
                          ELSE IF jfile.kind = "text" /\ Loads(jfile.text).ok
                          THEN "valid" ELSE "corrupt",
                !.rec0 = IF jfile.kind = "text" /\ Loads(jfile.text).ok
                         THEN {u \in Users : HasRec(Loads(jfile.text).v, u)}
                         ELSE {}]
    /\ \E u \in Users :
         req = [c \in Calls |->
                  [NoReq EXCEPT !.st = "start", !.user = IF c = 1 THEN "u1" ELSE u]]

NextTable ==
    \/ \E c \in Calls : LdCheck(c)
    \/ \E c \in Calls : LdRead(c)
    \/ \E c \in Calls : LdParse(c)
    \/ \E c \in Calls : LdReturn(c)
    \/ \E c \in Calls : RqFetch(c)
    \/ \E c \in Calls : RqRender(c)
    \/ \E c \in Calls : RqRecord(c)
    \/ \E c \in Calls : RqRemove(c)
    \/ \E c \in Calls : RqRemoved(c)
    \/ \E c \in Calls : SvOpen(c)
    \/ \E c \in Calls : SvDump(c)
    \/ \E c \in Calls : SvDumped(c)
    \/ \E c \in Calls : SvWrite(c)
    \/ \E c \in Calls : RqFinally(c)
    \/ \E c \in Calls : LastStart(c)
    \/ \E c \in Calls : LastLookup(c)

SpecTable == InitTable /\ [][NextTable]_vars

\* ------------------------------ FortunePainter.generate_image_sync: draw
\* Rationals <<numerator, denominator>> with a positive denominator stand
\* for the float weights.
RAdd(a, b) == <<a[1] * b[2] + b[1] * a[2], a[2] * b[2]>>
RLe(a, b) == a[1] * b[2] <= b[1] * a[2]
REq(a, b) == a[1] * b[2] = b[1] * a[2]
RECURSIVE RSum(_)
RSum(ws) == IF ws = <<>> THEN <<0, 1>> ELSE RAdd(ws[1], RSum(Tail(ws)))

\* The keys of a table in insertion order, each with the length of its entry
\* list; `k.startswith("_")` and int(k) of the keys the tables here use.
IsMeta(k) == k = LastKey
IntOf(k) ==
    CASE k = "55" -> 55 [] k = "56" -> 56 [] k = "70" -> 70 [] k = "71" -> 71
      [] k = "80" -> 80 [] k = "90" -> 90
ValidKeys(table) == SelectSeq(table, LAMBDA e : ~IsMeta(e[1]))

\* today_str and `today_md in self.holidays` for the default holiday list.
Dates == {"2024-01-01", "2024-01-02"}
IsHoliday(date) == date = "2024-01-01"

\* current_rates.get(name, default)
RateOf(rates, name, default) == IF name \in DOMAIN rates THEN rates[name] ELSE default

CategoryM(v) == IF v >= 70 THEN "good" ELSE IF v >= 56 THEN "normal" ELSE "bad"

\* `val > 70`, `val >= 56`, else
Category(v) == IF v > 70 THEN "good" ELSE IF v >= 56 THEN "normal" ELSE "bad"
DefaultRate(cat) == IF cat = "bad" THEN 20 ELSE 40
Max(a, b) == IF a > b THEN a ELSE b
KeysIn(keys, cat) == SelectSeq(keys, LAMBDA e : Category(IntOf(e[1])) = cat)

\* The weights list before the fallback: rate of the key's category divided
\* by max(len(keys of the category), 1).
RawWeights(keys, rates) ==
    [i \in DOMAIN keys |->
        LET cat == Category(IntOf(keys[i][1]))
        IN  <<RateOf(rates, cat, DefaultRate(cat)), Max(Len(KeysIn(keys, cat)), 1)>>]

FallbackM(ws) == ws

\* `if sum(weights) <= 0: weights = [1] * len(valid_keys_list)`
Fallback(ws) ==
    IF RLe(RSum(ws), <<0, 1>>) THEN [i \in DOMAIN ws |-> <<1, 1>>] ELSE ws

\* random.Random.choices(population, weights, k=1)[0] for random() = d/Grain:
\* an error for an empty population or a total that is not positive, else
\* population[bisect(cum_weights, random() * total, 0, n - 1)].
Cum(ws, i) == RSum(SubSeq(ws, 1, i))
ChoicesIndex(ws, d) ==
    LET n == Len(ws)
        total == Cum(ws, n)
        x == <<d * total[1], Grain * total[2]>>
    IN  IF n = 0 \/ RLe(total, <<0, 1>>) THEN 0
        ELSE 1 + Cardinality({i \in 1..(n - 1) : RLe(Cum(ws, i), x)})

\* One selection: its position, user and date, the seed of its generator,
\* its weights, the key drawn and the result (key, entry index), None as
\* Null.
NoSel == [st |-> "idle", user |-> "", date |-> "", seed |-> Null,
          weights |-> <<>>, key |-> 0, res |-> "pending"]

SeedOfM(c) == <<"os", c>>

\* rng = random.Random() is seeded from the operating system, a seed no
\* other generator has; with fixed_daily_fortune it is seeded again with
\* f"{user_id}-{today_str}".
SeedOf(c) ==
    IF pt.fixed THEN <<pt.sel[c].user, pt.sel[c].date>> ELSE <<"os", c>>

\* The i-th output of a generator is a function of its seed: a value
\* already produced for this seed and position comes again, any other is
\* free.
Outputs(seed, i) ==
    {v \in 0..(Grain - 1) :
        \A m \in pt.mt : (m[1] = seed /\ m[2] = i) => m[3] = v}

CurrentRates(date) ==
    IF pt.holiday_on /\ IsHoliday(date) THEN pt.holiday_rates ELSE pt.normal_rates

\* `if not jrys_data: return None`; the local generator is made and seeded.
SelSeed(c) ==
    /\ pt.sel[c].st = "start"
    /\ pt' = IF pt.table = <<>>
             THEN [pt EXCEPT !.sel[c].st = "done", !.sel[c].res = Null]
             ELSE [pt EXCEPT !.sel[c].st = "weigh", !.sel[c].seed = SeedOf(c)]
    /\ UNCHANGED <<now, fsVars, dlVars, op, conf, sw, kv, tableVars, mg, life>>

\* painter.py 137-170: the keys, today's rates, the weights and the
\* fallback.
SelWeigh(c) ==
    /\ pt.sel[c].st = "weigh"
    /\ pt' = [pt EXCEPT
                !.sel[c].st = "key",
                !.sel[c].weights =
                    Fallback(RawWeights(ValidKeys(pt.table),
                                        CurrentRates(pt.sel[c].date)))]
    /\ UNCHANGED <<now, fsVars, dlVars, op, conf, sw, kv, tableVars, mg, life>>

\* key_1 = rng.choices(valid_keys_list, weights=weights, k=1)[0]; its
\* exception is caught and None returned.
SelKey(c) ==
    /\ pt.sel[c].st = "key"
    /\ \E d \in Outputs(pt.sel[c].seed, 1) :
         LET i == ChoicesIndex(pt.sel[c].weights, d)
         IN  pt' = IF i = 0
                   THEN [pt EXCEPT !.sel[c].st = "done", !.sel[c].res = Null]
                   ELSE [pt EXCEPT !.sel[c].st = "entry", !.sel[c].key = i,
                                   !.mt = @ \cup {<<pt.sel[c].seed, 1, d>>}]
    /\ UNCHANGED <<now, fsVars, dlVars, op, conf, sw, kv, tableVars, mg, life>>

\* key_2 = rng.choice(list(range(len(jrys_data[key_1])))): IndexError for
\* an empty list, caught, None returned.
SelEntry(c) ==
    /\ pt.sel[c].st = "entry"
    /\ LET e == ValidKeys(pt.table)[pt.sel[c].key]
       IN  IF e[2] = 0
           THEN pt' = [pt EXCEPT !.sel[c].st = "done", !.sel[c].res = Null]
           ELSE \E d \in Outputs(pt.sel[c].seed, 2) :
                  pt' = [pt EXCEPT !.sel[c].st = "done",
                                   !.sel[c].res = <<e[1], (d * e[2]) \div Grain>>,
                                   !.mt = @ \cup {<<pt.sel[c].seed, 2, d>>}]
    /\ UNCHANGED <<now, fsVars, dlVars, op, conf, sw, kv, tableVars, mg, life>>

\* random.shuffle of a background list, random.choices of the gradient
\* colours: draws from the module-level generator, which moves on (an
\* output of it that lies behind is not produced again).
OtherDraw ==
    /\ pt.g < MaxOther
    /\ \E d \in Outputs(<<"module">>, pt.g + 1) :
         pt' = [pt EXCEPT !.g = @ + 1,
                          !.mt = {m \in @ : m[1] # <<"module">>}
                                 \cup {<<<<"module">>, pt.g + 1, d>>}]
    /\ UNCHANGED <<now, fsVars, dlVars, op, conf, sw, kv, tableVars, mg, life>>

\* Tables: the spec's one-key table with its metadata section, one key per
\* category, the category boundaries, two keys of a category, a key with
\* an empty entry list, metadata only, and the empty table.
SelTables ==
    {<< <<"80", 1>>, <<LastKey, 0>> >>,
     << <<"80", 1>>, <<"56", 2>>, <<"55", 1>> >>,
     << <<"71", 1>>, <<"70", 1>>, <<"56", 1>>, <<"55", 1>> >>,
     << <<"90", 2>>, <<"80", 1>>, <<"70", 1>> >>,
     << <<"80", 1>>, <<"55", 0>> >>,
     << <<LastKey, 0>> >>,
     <<>>}
NormalRates ==
    {[good |-> 40, normal |-> 40, bad |-> 20], [good |-> 0, normal |-> 0, bad |-> 0],
     [good |-> 100, normal |-> 0, bad |-> 0], [normal |-> 0, bad |-> 0]}

\* Two selections, one after the other or overlapping in their threads, for
\* one user or two, on one date or two, on one table and configuration.
InitSelect ==
    /\ now = 0
    /\ disk = [p \in Paths |-> NoFile]
    /\ tmpf = [k \in TmpKeys |-> NoFile]
    /\ orphan = {}
    /\ pc = [c \in Calls |-> "idle"]
    /\ dest = [c \in Calls |-> Null]
    /\ retriesArg = [c \in Calls |-> 0]
    /\ retries = [c \in Calls |-> 0]
    /\ attempt = [c \in Calls |-> 0]
    /\ result = [c \in Calls |-> "pending"]
    /\ nreq = [c \in Calls |-> 0]
    /\ hist = [c \in Calls |-> <<>>]
    /\ fault = [c \in Calls |-> FALSE]
    /\ backoff = [c \in Calls |-> 0]
    /\ cancelled = [c \in Calls |-> "no"]
    /\ op = [c \in Calls |-> NoOp]
    /\ conf = NoConf
    /\ NoSweep
    /\ NoTable
    /\ mg = NoMg
    /\ life = NoLife
    /\ \E table \in SelTables, rates \in NormalRates, fixed \in BOOLEAN,
          hol \in BOOLEAN, u \in Users, date \in Dates :
         pt = [st |-> "select", table |-> table, normal_rates |-> rates,
               holiday_rates |-> [good |-> 85, normal |-> 15, bad |-> 0],
               holiday_on |-> hol, fixed |-> fixed, g |-> 0, mt |-> {},
               sel |-> [c \in Calls |->
                          [NoSel EXCEPT !.st = "start",
                                        !.user = IF c = 1 THEN "u1" ELSE u,
                                        !.date = IF c = 1 THEN "2024-01-01" ELSE date]]]

NextSelect ==
    \/ \E c \in Calls : SelSeed(c)
    \/ \E c \in Calls : SelWeigh(c)
    \/ \E c \in Calls : SelKey(c)
    \/ \E c \in Calls : SelEntry(c)
    \/ OtherDraw

SpecSelect == InitSelect /\ [][NextSelect]_vars

\* --------------------- _ensure_storage_dirs / _migrate_legacy_cache_dir
\* One legacy directory and its target: per name nothing, a regular file
\* (content, st_mtime) or a sub-directory.
FileNames == {"a.jpg", "b.jpg"}
NoEntry == [kind |-> "none", body |-> "", mtime |-> 0]
FileEntry(body, mtime) == [kind |-> "file", body |-> body, mtime |-> mtime]
DirEntry == [kind |-> "dir", body |-> "", mtime |-> 0]

\* _storage_initialized, the directories resolved ("std" under plugin_data,
\* "fallback" under the plugin directory), the legacy directory and the
\* target, the names the running migration still has to visit; and as
\* history the calls made, the migrations begun, the names that failed,
\* whether the last call raised, and both directories as they were.
Storage(src, dst) ==
    [st |-> "idle", inited |-> FALSE, dirs |-> "none", srcdir |-> TRUE,
     src |-> src, dst |-> dst, todo |-> {}, n |-> 0, migs |-> 0,
     failed |-> {}, raised |-> FALSE, src0 |-> src, dst0 |-> dst]

InitializedM == FALSE

\* `if self._storage_initialized: return`
Initialized == mg.inited

\* `for item in legacy_dir.iterdir()`
Listing == {f \in FileNames : mg.src[f].kind # "none"}

\* A call of _ensure_storage_dirs (from get_avatar_img, get_background_image,
\* the path functions, initialize or the sweep; all run on the event loop and
\* the function never awaits): nothing when initialised; otherwise the
\* directories are made under plugin_data or, when that raises, under the
\* plugin directory, where a failing mkdir raises to the caller; then the
\* migration begins: nothing to do when the legacy directory is missing.
EnsureStart ==
    /\ mg.st = "idle"
    /\ mg.n < MaxEnsure
    /\ IF Initialized
       THEN mg' = [mg EXCEPT !.n = @ + 1, !.raised = FALSE]
       ELSE \E env \in {"std", "fallback", "broken"} :
              IF env = "broken"
              THEN mg' = [mg EXCEPT !.n = @ + 1, !.raised = TRUE]
              ELSE IF ~mg.srcdir
              THEN mg' = [mg EXCEPT !.n = @ + 1, !.raised = FALSE, !.dirs = env,
                                    !.migs = @ + 1, !.inited = TRUE]
              ELSE mg' = [mg EXCEPT !.n = @ + 1, !.raised = FALSE, !.dirs = env,
                                    !.migs = @ + 1, !.st = "loop",
                                    !.todo = Listing, !.failed = {}]
    /\ UNCHANGED <<now, fsVars, dlVars, op, conf, sw, kv, tableVars, pt, life>>

NewerM(a, b) == a.mtime >= b.mtime

\* not `src_stat.st_mtime <= dest_stat.st_mtime`
Newer(a, b) == a.mtime > b.mtime

AfterFailureM(f) == {}

\* `except Exception as e: failed += 1`, and the loop goes on
AfterFailure(f) == mg.todo \ {f}

\* One turn of the loop over the legacy directory: an entry that is not a
\* regular file is passed over; a file that is not newer than the file of
\* its name in the target is unlinked; otherwise it is moved over it with
\* os.replace or, across devices, copied with its times and unlinked.  A
\* file operation that fails (PermissionError) leaves the file where it is.
MgFile ==
    /\ mg.st = "loop"
    /\ \E f \in mg.todo, out \in {"ok", "exdev", "fail", "copied"} :
         LET item == mg.src[f]
             there == mg.dst[f]
         IN  IF item.kind # "file"
             THEN mg' = [mg EXCEPT !.todo = @ \ {f}]
             ELSE IF out = "fail"
             THEN mg' = [mg EXCEPT !.todo = AfterFailure(f), !.failed = @ \cup {f}]
             ELSE IF out = "copied" /\ (there.kind = "none" \/ Newer(item, there))
             THEN \* shutil.copy2 wrote the target and item.unlink raised
                  mg' = [mg EXCEPT !.todo = AfterFailure(f), !.failed = @ \cup {f},
                                   !.dst[f] = item]
             ELSE IF there.kind # "none" /\ ~Newer(item, there)
             THEN mg' = [mg EXCEPT !.todo = @ \ {f}, !.src[f] = NoEntry]
             ELSE mg' = [mg EXCEPT !.todo = @ \ {f}, !.src[f] = NoEntry,
                                   !.dst[f] = item]
    /\ UNCHANGED <<now, fsVars, dlVars, op, conf, sw, kv, tableVars, pt, life>>

\* `if not any(legacy_dir.iterdir()): legacy_dir.rmdir()`; back in
\* _ensure_storage_dirs, `self._storage_initialized = True`.
MgEnd ==
    /\ mg.st = "loop"
    /\ mg.todo = {}
    /\ mg' = [mg EXCEPT !.st = "idle", !.inited = TRUE,
                        !.srcdir = (Listing # {})]
    /\ UNCHANGED <<now, fsVars, dlVars, op, conf, sw, kv, tableVars, pt, life>>

\* Legacy files older than, as old as and newer than the target's, and a
\* sub-directory.
SrcEntries == {NoEntry, FileEntry("old", 1), FileEntry("new", 2), DirEntry}
DstEntries == {NoEntry, FileEntry("kept", 1), FileEntry("kept", 2)}

InitStorage ==
    /\ now = 0
    /\ disk = [p \in Paths |-> NoFile]
    /\ tmpf = [k \in TmpKeys |-> NoFile]
    /\ orphan = {}
    /\ pc = [c \in Calls |-> "idle"]
    /\ dest = [c \in Calls |-> Null]
    /\ retriesArg = [c \in Calls |-> 0]
    /\ retries = [c \in Calls |-> 0]
    /\ attempt = [c \in Calls |-> 0]
    /\ result = [c \in Calls |-> "pending"]
    /\ nreq = [c \in Calls |-> 0]
    /\ hist = [c \in Calls |-> <<>>]
    /\ fault = [c \in Calls |-> FALSE]
    /\ backoff = [c \in Calls |-> 0]
    /\ cancelled = [c \in Calls |-> "no"]
    /\ op = [c \in Calls |-> NoOp]
    /\ conf = NoConf
    /\ NoSweep
    /\ NoTable
    /\ pt = NoPt
    /\ life = NoLife
    /\ \E src \in [FileNames -> SrcEntries], dst \in [FileNames -> DstEntries],
          there \in BOOLEAN :
         /\ ~there => \A f \in FileNames : src[f] = NoEntry
         /\ mg = [Storage(src, dst) EXCEPT !.srcdir = there]

NextStorage ==
    \/ EnsureStart
    \/ MgFile
    \/ MgEnd

SpecStorage == InitStorage /\ [][NextStorage]_vars

\* ---------------------------------------------------------------- shutdown
\* The plugin with its ResourceManager: the aiohttp session of __init__ is
\* open, terminate has not been called.
Alive == [st |-> "running", session |-> "open", report |-> "none"]

\* `self.resources._precache_task and not self.resources._precache_task.done()`
TaskRunning == sw.st \notin {"idle", "returned", "raised", "cancelled"}

TaskEndedM == TRUE

\* `await self.resources._precache_task` resumes when the task is done.
TaskEnded == sw.st \in {"returned", "raised", "cancelled"}

\* terminate() up to its first await: a task that is not done is cancelled
\* and awaited; with no task, or a task that is done, the session is closed
\* at once.  (The sweep task is at one of its awaits whenever another
\* coroutine runs.)
TermStart ==
    /\ life.st = "running"
    /\ sw.st # "spawn"
    /\ IF TaskRunning
       THEN /\ CancelTask
            /\ life' = [life EXCEPT !.st = "awaiting"]
       ELSE /\ life' = [life EXCEPT !.st = "closing"]
            /\ UNCHANGED <<sw, kv>>
    /\ UNCHANGED <<now, fsVars, dlVars, op, conf, tableVars, pt, mg>>

\* The awaited task is done: `except asyncio.CancelledError: pass`, `except
\* Exception` logs a warning; then `if self.resources._session`.
TermAwaited ==
    /\ life.st = "awaiting"
    /\ TaskEnded
    /\ life' = [life EXCEPT !.st = "closing",
                            !.report = IF sw.st = "cancelled" THEN "absorbed"
                                       ELSE IF sw.st = "raised" THEN "warned"
                                       ELSE "none"]
    /\ UNCHANGED <<now, fsVars, dlVars, op, conf, sw, kv, tableVars, pt, mg>>

\* `await self.resources._session.close()`, and terminate returns.
TermClose ==
    /\ life.st = "closing"
    /\ life' = [life EXCEPT !.st = "terminated", !.session = "closed"]
    /\ UNCHANGED <<now, fsVars, dlVars, op, conf, sw, kv, tableVars, pt, mg>>

\* A plugin whose sweep was never started, or was started by initialize.
InitShutdown ==
    /\ now = 0
    /\ \E cached \in SUBSET Urls :
         disk = [p \in Paths |->
                   IF \E u \in cached : p = BgCachePath(u) THEN OldFile(0) ELSE NoFile]
    /\ tmpf = [k \in TmpKeys |-> NoFile]
    /\ orphan = {}
    /\ pc = [c \in Calls |-> "idle"]
    /\ dest = [c \in Calls |-> Null]
    /\ retriesArg = [c \in Calls |-> 0]
    /\ retries = [c \in Calls |-> 0]
    /\ attempt = [c \in Calls |-> 0]
    /\ result = [c \in Calls |-> "pending"]
    /\ nreq = [c \in Calls |-> 0]
    /\ hist = [c \in Calls |-> <<>>]
    /\ fault = [c \in Calls |-> FALSE]
    /\ backoff = [c \in Calls |-> 0]
    /\ cancelled = [c \in Calls |-> "no"]
    /\ op = [c \in Calls |-> NoOp]
    /\ \E start \in BOOLEAN, o \in {NoOption, Option(1)}, has \in BOOLEAN :
         /\ conf = [pre_cache |-> start, cleanup |-> TRUE, lists |-> BgLists,
                    concurrency |-> o]
         /\ sw = IF start THEN [NoSw EXCEPT !.st = "collecting", !.hasKv = has]
                 ELSE NoSw
    /\ kv = "absent"
    /\ NoTable
    /\ pt = NoPt
    /\ mg = NoMg
    /\ life = Alive

NextShutdown ==
    \/ SwCollect
    \/ \E ok \in BOOLEAN : SwPutRunning(ok)
    \/ SwSpawn
    \/ \E c \in Calls : SwDlBegin(c)
    \/ \E c \in Calls : SwAcquire(c)
    \/ \E c \in Calls : SwStep(c)
    \/ \E c \in Calls : SwDlFinish(c)
    \/ \E c \in Calls : SwDlCancel(c)
    \/ SwGatherEnd
    \/ \E ok \in BOOLEAN : SwPutFinal(ok)
    \/ \E k \in TmpKeys : OrphanOpen(k)
    \/ TermStart
    \/ TermAwaited
    \/ TermClose

SpecShutdown == InitShutdown /\ [][NextShutdown]_vars

\* -------------------------------------------------------------- cache path
\* Nothing but the component at hand: no file, no download, no sweep, no
\* table.
Quiescent ==
    /\ now = 0
    /\ disk = [p \in Paths |-> NoFile]
    /\ tmpf = [k \in TmpKeys |-> NoFile]
    /\ orphan = {}
    /\ pc = [c \in Calls |-> "idle"]
    /\ dest = [c \in Calls |-> Null]
    /\ retriesArg = [c \in Calls |-> 0]
    /\ retries = [c \in Calls |-> 0]
    /\ attempt = [c \in Calls |-> 0]
    /\ result = [c \in Calls |-> "pending"]
    /\ nreq = [c \in Calls |-> 0]
    /\ hist = [c \in Calls |-> <<>>]
    /\ fault = [c \in Calls |-> FALSE]
    /\ backoff = [c \in Calls |-> 0]
    /\ cancelled = [c \in Calls |-> "no"]
    /\ op = [c \in Calls |-> NoOp]
    /\ conf = NoConf
    /\ NoSweep
    /\ NoTable

\* A str is the sequence of its characters.
Chars == {"/", ".", "B", "?"}
Host == <<"h", ":", "/", "/", "h", "/">>
Repeat(ch, n) == [i \in 1 .. n |-> ch]
Strings(n) == UNION {[1 .. k -> Chars] : k \in 0 .. n}
\* URLs of one host with every short tail, and two whose last dot is
\* followed by 9 and by 10 characters.
LongTails == {<<"B", ".">> \o Repeat("B", n) : n \in {9, 10}}
TestUrls == {Host \o t : t \in Strings(MaxTail) \cup LongTails}

\* str.find with a set of characters: the first position from `from` on
\* that holds one of them, Len + 1 when there is none.
Find(str, set, from) ==
    LET hits == {i \in from .. Len(str) : str[i] \in set}
    IN  IF hits = {} THEN Len(str) + 1 ELSE CHOOSE i \in hits : \A j \in hits : i <= j
\* str.rfind: the last position of the character, 0 when there is none.
RFind(str, ch) ==
    LET hits == {i \in 1 .. Len(str) : str[i] = ch}
    IN  IF hits = {} THEN 0 ELSE CHOOSE i \in hits : \A j \in hits : j <= i

\* urlparse(url).path: after "scheme:", "//" opens the network location,
\* which ends at the first of / ? #; the path ends at the first of ? #.
UrlPath(url) ==
    LET colon == Find(url, {":"}, 1)
        slashes == colon + 2 <= Len(url) /\ url[colon + 1] = "/" /\ url[colon + 2] = "/"
        start == IF slashes THEN Find(url, {"/", "?", "#"}, colon + 3) ELSE colon + 1
    IN  SubSeq(url, start, Find(url, {"?", "#"}, start) - 1)

\* os.path.splitext(p)[1]: from the last dot of the last component on,
\* unless only dots come before it in the component.
SplitExt(p) ==
    LET sep == RFind(p, "/")
        dot == RFind(p, ".")
    IN  IF dot > sep /\ \E k \in (sep + 1) .. (dot - 1) : p[k] # "."
        THEN SubSeq(p, dot, Len(p))
        ELSE <<>>

LowerM(str) == str

\* str.lower()
Lower(str) == [i \in 1 .. Len(str) |-> IF str[i] = "B" THEN "b" ELSE str[i]]

MaxExtLen == 10
DefaultExt == <<".", "i", "m", "g">>

\* `if not ext or len(ext) > 10: ext = ".img"`
ExtOf(url) ==
    LET ext == Lower(SplitExt(UrlPath(url)))
    IN  IF ext = <<>> \/ Len(ext) > MaxExtLen THEN DefaultExt ELSE ext

DigestM(url) == <<"sha256", UrlPath(url)>>

\* sha256(url.encode("utf-8")).hexdigest(): a function of the whole URL,
\* taken to be free of collisions.
Digest(url) == <<"sha256", url>>

\* self._background_cache_dir / f"{digest}{ext}"
CachePathFor(dir, url) == [dir |-> dir, digest |-> Digest(url), ext |-> ExtOf(url)]

\* _background_cache_path_for_url(url): _ensure_storage_dirs has resolved
\* the cache directory (on the first call, unchanged after it).
PathCall(c) ==
    /\ mg.st = "paths"
    /\ mg' = [mg EXCEPT !.inited = TRUE,
                        !.again[c] = mg.ret[c] # {},
                        !.ret[c] = @ \cup {CachePathFor(mg.dir, mg.url[c])}]
    /\ UNCHANGED <<now, fsVars, dlVars, op, conf, sw, kv, tableVars, pt, life>>

InitPath ==
    /\ Quiescent
    /\ pt = NoPt
    /\ life = NoLife
    /\ \E dir \in {"plugin_data", "fallback"}, u1 \in TestUrls, u2 \in TestUrls :
         mg = [st |-> "paths", inited |-> FALSE, dir |-> dir,
               url |-> [c \in Calls |-> IF c = 1 THEN u1 ELSE u2],
               ret |-> [c \in Calls |-> {}], again |-> [c \in Calls |-> FALSE]]

NextPath == \E c \in Calls : PathCall(c)

SpecPath == InitPath /\ [][NextPath]_vars

\* ----------------------------------------------------------------- render
\* generate_image_sync after the selection: the image is what has been
\* composed onto the cropped background, as the set of its marks.
Elements == <<"date", "fortune_summary", "lucky_star", "sign_text", "unsign_text",
              "warning_text">>
NoRender == [st |-> "start", img |-> {}, idx |-> 0, ran |-> {}, failed |-> {},
             res |-> "pending", cause |-> ""]
\* `return None`
ReturnedNone(cause) == [pt EXCEPT !.st = "done", !.res = "None", !.cause = cause]

\* `if not jrys_data: return None`; the selection, any Exception of which
\* (a key with no entries, an entry that is no dict) returns None.
RdSelect ==
    /\ pt.st = "start"
    /\ \E out \in {"empty", "failed", "ok"} :
         pt' = IF out = "ok" THEN [pt EXCEPT !.st = "crop"]
               ELSE ReturnedNone(IF out = "empty" THEN "empty table" ELSE "selection")
    /\ UNCHANGED <<now, fsVars, dlVars, op, conf, sw, kv, tableVars, mg, life>>

\* image = self.crop_center(background_path): None for a file that is
\* missing or cannot be read, and `return None`.
RdCrop ==
    /\ pt.st = "crop"
    /\ \E ok \in BOOLEAN :
         pt' = IF ok THEN [pt EXCEPT !.st = "panel", !.img = {<<"background", 0>>},
                                     !.ran = @ \cup {"crop"}]
               ELSE ReturnedNone("background")
    /\ UNCHANGED <<now, fsVars, dlVars, op, conf, sw, kv, tableVars, mg, life>>

SwallowsM(stage) == stage # "lucky_star"

\* add_transparent_layer, draw_text and draw_avatar_img each end in
\* `except Exception`, log and return the image they were given.
Swallows(stage) == TRUE

\* add_transparent_layer: the overlay is drawn on an image of its own and
\* composited at the end; an Exception returns base_img.
RdPanel ==
    /\ pt.st = "panel"
    /\ \E ok \in BOOLEAN :
         pt' = IF ~ok /\ ~Swallows("panel") THEN ReturnedNone("panel")
               ELSE [pt EXCEPT !.st = "text", !.idx = 1, !.ran = @ \cup {"panel"},
                               !.img = IF ok THEN @ \cup {<<"panel", 0>>} ELSE @,
                               !.failed = IF ok THEN @ ELSE @ \cup {"panel"}]
    /\ UNCHANGED <<now, fsVars, dlVars, op, conf, sw, kv, tableVars, mg, life>>

\* draw_text draws on img itself, line after line: an Exception at a line
\* (bad, 0 for none) leaves the lines before it on the image, which the
\* handler returns.
DrawnLines(e, n, bad) ==
    {<<e, k>> : k \in 1 .. (IF bad = 0 THEN n ELSE bad - 1)}

\* One of the six draw_text calls, for a text of n lines.
RdText ==
    /\ pt.st = "text"
    /\ \E n \in 1 .. MaxLines, bad \in 0 .. MaxLines :
         /\ bad <= n
         /\ LET e == Elements[pt.idx]
            IN  pt' = IF bad # 0 /\ ~Swallows(e) THEN ReturnedNone(e)
                      ELSE [pt EXCEPT
                         !.st = IF pt.idx = Len(Elements) THEN "avatar" ELSE "text",
                         !.idx = IF pt.idx = Len(Elements) THEN 0 ELSE @ + 1,
                         !.ran = @ \cup {e},
                         !.img = @ \cup DrawnLines(e, n, bad),
                         !.failed = IF bad = 0 THEN @ ELSE @ \cup {e}]
    /\ UNCHANGED <<now, fsVars, dlVars, op, conf, sw, kv, tableVars, mg, life>>

\* draw_avatar_img: the avatar is opened, resized and masked, then pasted;
\* an Exception (no file, no image, avatar_path None) returns img.
RdAvatar ==
    /\ pt.st = "avatar"
    /\ \E ok \in BOOLEAN :
         pt' = IF ~ok /\ ~Swallows("avatar") THEN ReturnedNone("avatar")
               ELSE [pt EXCEPT !.st = "save", !.ran = @ \cup {"avatar"},
                               !.img = IF ok THEN @ \cup {<<"avatar", 0>>} ELSE @,
                               !.failed = IF ok THEN @ ELSE @ \cup {"avatar"}]
    /\ UNCHANGED <<now, fsVars, dlVars, op, conf, sw, kv, tableVars, mg, life>>

\* NamedTemporaryFile, convert("RGB"), save as JPEG: the name of the file,
\* or None by the outer handler when one of them raises.
RdSave ==
    /\ pt.st = "save"
    /\ \E ok \in BOOLEAN :
         pt' = IF ok THEN [pt EXCEPT !.st = "done", !.res = "poster.jpg",
                                     !.ran = @ \cup {"save"}]
               ELSE ReturnedNone("save")
    /\ UNCHANGED <<now, fsVars, dlVars, op, conf, sw, kv, tableVars, mg, life>>

InitRender ==
    /\ Quiescent
    /\ mg = NoMg
    /\ life = NoLife
    /\ pt = NoRender

NextRender == RdSelect \/ RdCrop \/ RdPanel \/ RdText \/ RdAvatar \/ RdSave

SpecRender == InitRender /\ [][NextRender]_vars

\* ------------------------------------------------------------ crop_center
\* max_scale = 1.8, as the fraction 9/5.
MaxScale == <<9, 5>>
RMul(a, b) == <<a[1] * b[1], a[2] * b[2]>>
RLt(a, b) == ~RLe(b, a)
RMax(a, b) == IF RLe(a, b) THEN b ELSE a
RMin(a, b) == IF RLe(a, b) THEN a ELSE b
\* int(n * scale) of a positive number.
Scaled(n, scale) == (n * scale[1]) \div scale[2]

\* The scale of the resize step, <<1, 1>> when the image is not resized:
\* an image smaller than the canvas on an axis is scaled up by the larger
\* axis ratio; else one above 1.8 times the canvas on an axis is scaled by
\* the smaller ratio of 1.8 times the canvas to the image.
ResizeScale(iw, ih, w, h) ==
    IF iw < w \/ ih < h
    THEN RMax(<<w, iw>>, <<h, ih>>)
    ELSE IF RLt(RMul(<<w, 1>>, MaxScale), <<iw, 1>>)
            \/ RLt(RMul(<<h, 1>>, MaxScale), <<ih, 1>>)
    THEN RMin(RMul(<<w, iw>>, MaxScale), RMul(<<h, ih>>, MaxScale))
    ELSE <<1, 1>>

\* Image.open(...).convert("RGBA") and the resize step.
CropResize ==
    /\ pt.st = "open"
    /\ LET scale == ResizeScale(pt.iw, pt.ih, pt.w, pt.h)
       IN  pt' = [pt EXCEPT !.st = "resized",
                            !.nw = IF scale = <<1, 1>> THEN pt.iw ELSE Scaled(pt.iw, scale),
                            !.nh = IF scale = <<1, 1>> THEN pt.ih ELSE Scaled(pt.ih, scale)]
    /\ UNCHANGED <<now, fsVars, dlVars, op, conf, sw, kv, tableVars, mg, life>>

\* left, top, right, bottom = (img_width -+ width) / 2, (img_height -+
\* height) / 2, as halves of a pixel; img.crop(box).
CropBox ==
    /\ pt.st = "resized"
    /\ pt' = [pt EXCEPT !.st = "cropped",
                        !.box = [left |-> pt.nw - pt.w, top |-> pt.nh - pt.h,
                                 right |-> pt.nw + pt.w, bottom |-> pt.nh + pt.h]]
    /\ UNCHANGED <<now, fsVars, dlVars, op, conf, sw, kv, tableVars, mg, life>>

InitCrop ==
    /\ Quiescent
    /\ mg = NoMg
    /\ life = NoLife
    /\ \E iw \in 1 .. MaxSide, ih \in 1 .. MaxSide, w \in 1 .. MaxCanvas, h \in 1 .. MaxCanvas :
         pt = [st |-> "open", iw |-> iw, ih |-> ih, w |-> w, h |-> h, nw |-> 0, nh |-> 0,
               box |-> [left |-> 0, top |-> 0, right |-> 0, bottom |-> 0]]

NextCrop == CropResize \/ CropBox

SpecCrop == InitCrop /\ [][NextCrop]_vars

\* -------------------------------------------------------------- wrap_text
\* bbox[2] - bbox[0] of draw.textbbox((0, 0), line, font=font), for a font
\* all of whose characters are charw wide.
TextWidth(line) == pt.charw * Len(line)

FitsM(line) == TextWidth(line) < pt.max_width

\* `if width <= max_width`
Fits(line) == TextWidth(line) <= pt.max_width

\* One turn of `for char in text`: the character joins the current line if
\* the line still fits, else the current line is closed and the character
\* starts the next.
WrapChar ==
    /\ pt.st = "wrap"
    /\ pt.i <= Len(pt.text)
    /\ LET test_line == Append(pt.current_line, pt.text[pt.i])
       IN  pt' = IF Fits(test_line)
                 THEN [pt EXCEPT !.i = @ + 1, !.current_line = test_line]
                 ELSE [pt EXCEPT !.i = @ + 1,
                                 !.lines = Append(@, pt.current_line),
                                 !.current_line = <<pt.text[pt.i]>>]
    /\ UNCHANGED <<now, fsVars, dlVars, op, conf, sw, kv, tableVars, mg, life>>

\* `if current_line: lines.append(current_line)`; `return lines`.
WrapEnd ==
    /\ pt.st = "wrap"
    /\ pt.i > Len(pt.text)
    /\ pt' = [pt EXCEPT !.st = "done",
                        !.lines = IF pt.current_line # <<>>
                                  THEN Append(@, pt.current_line) ELSE @]
    /\ UNCHANGED <<now, fsVars, dlVars, op, conf, sw, kv, tableVars, mg, life>>

Texts == UNION {[1 .. k -> {"a", "b"}] : k \in 0 .. MaxText}

\* A text, a monospaced font and a max_width of at least one character (the
\* callers pass TEXT_WRAP_WIDTH = 1000 with fonts of 30 to 60 pixels).
InitWrap ==
    /\ Quiescent
    /\ mg = NoMg
    /\ life = NoLife
    /\ \E text \in Texts, charw \in 1 .. MaxCharW, max_width \in 1 .. MaxWidth :
         /\ charw <= max_width
         /\ pt = [st |-> "wrap", text |-> text, charw |-> charw, max_width |-> max_width,
                  i |-> 1, lines |-> <<>>, current_line |-> <<>>]

NextWrap == WrapChar \/ WrapEnd

SpecWrap == InitWrap /\ [][NextWrap]_vars

\* ------------------------------------------------------ properties: table
\* C17: when jrys.json holds valid JSON the file is read at most once in
\* the life of the process, concurrent first loads included; all loads
\* return one and the same object; and the object a request has put its
\* record into is the one its save writes.
C17_LoadedOnce ==
    mem.file0 = "valid" =>
        /\ mem.reads <= 1
        /\ \A c, d \in Calls :
              (req[c].ret # NoRef /\ req[d].ret # NoRef) => req[c].ret = req[d].ret
        /\ \A c \in Calls :
              req[c].st \in {"saveOpen", "saveDump"} => req[c].tbl = mem.data

\* The kinds of jrys.json that are unreadable or not valid JSON.
CorruptFiles ==
    {JFile("text", <<Tok("p", "{")>>), JFile("binary", <<>>), JFile("unreadable", <<>>)}

\* C18: when jrys.json is unreadable, is not valid JSON or cannot be decoded
\* as text, no load raises, every load returns an empty table, and the file
\* stays as it is through all requests.
C18_CorruptTolerated ==
    mem.file0 = "corrupt"
    => /\ \A c \in Calls : req[c].st # "raised"
       /\ \A c \in Calls : req[c].ret # NoRef => heap[req[c].ret] = Dict(<<>>)
       /\ jfile \in CorruptFiles

C20_LastImageReplaced ==
    [][\A c \in Calls :
         (req[c].st \in {"record", "removed"} /\ req'[c].st = "saveOpen")
         => LET o == req'[c].tbl
                u == req[c].user
                old == RecOf(heap[o], u)
                oldPath == PathOf(Get(old, "path").s)
            IN  /\ HasRec(heap'[o], u)
                /\ RecOf(heap'[o], u) = LastRec(req[c].bg, req[c].cleanup)
                /\ \A w \in Users \ {u} :
                      /\ HasRec(heap'[o], w) = HasRec(heap[o], w)
                      /\ HasRec(heap[o], w) => RecOf(heap'[o], w) = RecOf(heap[o], w)
                /\ HasRec(heap[o], u)
                     => IF /\ Get(old, "should_cleanup") = Bool(TRUE)
                           /\ oldPath # req[c].bg
                        THEN ~disk'[oldPath].exists
                        ELSE req[c].st = "record" /\ disk'[oldPath] = disk[oldPath]]_vars


\* C21: a jrys_last of user u that arrives when renders of u have returned
\* with success and none is under way, and during which no render of u runs
\* or returns, yields an image whose path is the background of one of those
\* renders, and that file is on disk; a jrys_last of a user of whom no render
\* has succeeded and of whom jrys.json had no record yields the not-found
\* message.
C21_LastImageIsRenderedOne ==
    [][\A c \in Calls :
         (/\ req[c].st = "lookup" /\ req'[c].st = "done"
          /\ req[c].quiet /\ ~Rendering(req[c].user)
          /\ WonBy(req[c].user) = req[c].seen)
         => IF req[c].seen # {}
            THEN /\ req'[c].msg = "image"
                 /\ \E p \in req[c].seen : PathStr(p) = req'[c].img /\ disk[p].exists
            ELSE req[c].user \notin mem.rec0 => req'[c].msg = "no_record"]_vars


\* C22: once the gather of a render request has returned, a request whose
\* avatar fetch or background fetch failed (None) ends there with the error
\* message: it writes no record, no ephemeral background of it is on disk,
\* and it never yields a poster.
C22_AbortsWhenEitherFetchFails ==
    /\ [][\A c \in Calls :
            (/\ req[c].st = "fetch" /\ req'[c].st # "fetch"
             /\ (~req'[c].avatar \/ req'[c].bg = Null))
            => /\ req'[c].st = "done" /\ req'[c].msg = "error"
               /\ heap' = heap
               /\ ~disk'[BgTmpPath(c, 1)].exists]_vars
    /\ [](\A c \in Calls :
            (req[c].kind = "render" /\ req[c].msg = "poster") => req[c].avatar)


\* C23: every step of a render request that has its background and ends in
\* failure (the renderer returned None, or an exception was raised while
\* rendering or delivering) leaves the tables in memory and jrys.json as
\* they are, and when the request returns its ephemeral background is not
\* on disk.
C23_FailureCleansEphemeral ==
    [][\A c \in Calls :
         (/\ req[c].kind = "render" /\ req'[c] # req[c]
          /\ req[c].bg # Null /\ req'[c].msg = "error")
         => /\ heap' = heap /\ jfile' = jfile
            /\ (req'[c].st = "done" /\ req[c].cleanup) => ~disk'[req[c].bg].exists]_vars

\* A failed render of a user who has a record, its ephemeral background gone.
C23_Witness ==
    \E c \in Calls :
        /\ req[c].kind = "render" /\ req[c].st = "done" /\ req[c].msg = "error"
        /\ req[c].cleanup /\ req[c].bg \in BgTmpPaths /\ ~disk[req[c].bg].exists
        /\ mem.data # NoRef /\ HasRec(heap[mem.data], req[c].user)


\* ---------------------------------------------------- properties: painter
\* C24: with fixed_daily_fortune enabled, two selections of the same user
\* on the same date and table that have returned have the same result (key
\* and entry index, or both None), whatever was drawn from the module-level
\* generator and in whatever order their steps ran.
C24_FixedDailyFortune ==
    pt.fixed =>
        \A c, d \in Calls :
            (/\ pt.sel[c].st = "done" /\ pt.sel[d].st = "done"
             /\ pt.sel[c].user = pt.sel[d].user
             /\ pt.sel[c].date = pt.sel[d].date)
            => pt.sel[c].res = pt.sel[d].res

\* Two selections of one user and date that agree on a key of a table with
\* several keys, with a draw of the module-level generator made.
C24_Witness ==
    /\ pt.fixed /\ pt.g > 0 /\ Len(ValidKeys(pt.table)) > 2
    /\ pt.sel[1].st = "done" /\ pt.sel[2].st = "done"
    /\ pt.sel[1].user = pt.sel[2].user /\ pt.sel[1].date = pt.sel[2].date
    /\ pt.sel[1].res # Null /\ pt.sel[1].res = pt.sel[2].res

\* The categories as the claim states them, the percentage of the active
\* profile and the keys (positions) of a category.
InCategory(v, cat) ==
    CASE cat = "good" -> v > 70
      [] cat = "normal" -> 56 <= v /\ v <= 70
      [] cat = "bad" -> v < 56
Categories == {"good", "normal", "bad"}
Percent(c, cat) ==
    LET r == IF pt.holiday_on /\ pt.sel[c].date = "2024-01-01"
             THEN pt.holiday_rates ELSE pt.normal_rates
    IN  IF cat \in DOMAIN r THEN r[cat] ELSE IF cat = "bad" THEN 20 ELSE 40
Members(cat) ==
    {i \in DOMAIN ValidKeys(pt.table) : InCategory(IntOf(ValidKeys(pt.table)[i][1]), cat)}
SumOver(ws, I) == RSum([i \in DOMAIN ws |-> IF i \in I THEN ws[i] ELSE <<0, 1>>])
\* The sum of all weights: the percentages of the categories that have keys.
Share(c, cat) == IF Members(cat) # {} THEN Percent(c, cat) ELSE 0
TotalPercent(c) == Share(c, "good") + Share(c, "normal") + Share(c, "bad")
Weighed(c) == pt.sel[c].st \in {"key", "entry"} \/ (pt.sel[c].st = "done" /\ pt.table # <<>>)

\* C25: once the weights are computed (and their sum is positive), every
\* key is in exactly one category, its weight is the percentage of its
\* category divided by the number of keys of the category, the weights of a
\* category with keys sum to its percentage and the only key of a category
\* has the percentage as its weight.
C25_CategoryWeights ==
    \A c \in Calls :
        (Weighed(c) /\ TotalPercent(c) > 0)
        => LET ws == pt.sel[c].weights
           IN  /\ Len(ws) = Len(ValidKeys(pt.table))
               /\ \A i \in DOMAIN ws :
                    Cardinality({cat \in Categories : i \in Members(cat)}) = 1
               /\ \A cat \in Categories :
                    /\ \A i \in Members(cat) :
                         REq(ws[i], <<Percent(c, cat), Cardinality(Members(cat))>>)
                    /\ Members(cat) # {}
                       => REq(SumOver(ws, Members(cat)), <<Percent(c, cat), 1>>)
                    /\ \A i \in Members(cat) :
                         Members(cat) = {i} => ws[i] = <<Percent(c, cat), 1>>

\* Weights 40/40/20 of a table with one key per category, and two keys that
\* share a category.
C25_Witness ==
    \/ /\ Weighed(1) /\ pt.sel[1].weights = << <<40, 1>>, <<40, 1>>, <<20, 1>> >>
    \/ /\ Weighed(1) /\ Cardinality(Members("good")) = 2
       /\ pt.sel[1].weights[1] = <<40, 2>>

\* C26: when the sum of the weights is not positive and the table has a key
\* with entries, every key gets weight 1 and the selection returns an entry,
\* not None.
C26_UniformFallback ==
    \A c \in Calls :
        (/\ Weighed(c) /\ TotalPercent(c) <= 0
         /\ \E i \in DOMAIN ValidKeys(pt.table) : ValidKeys(pt.table)[i][2] > 0)
        => /\ \A i \in DOMAIN pt.sel[c].weights : pt.sel[c].weights[i] = <<1, 1>>
           /\ pt.sel[c].st = "done" => pt.sel[c].res # Null


\* ---------------------------------------------------- properties: storage
\* The versions of a name the two directories held before the migration.
Versions(f) == {e \in {mg.src0[f], mg.dst0[f]} : e.kind = "file"}
Migrated == mg.st = "idle" /\ mg.inited /\ mg.migs > 0

\* C27: a turn of the migration loop that handles a regular file without an
\* error removes it from the legacy directory; a file of its name in the
\* target is left as it is when the legacy file is older or as old and gets
\* the legacy file's content when that is newer; with no such file the
\* legacy file is moved.  After a migration without errors the target holds,
\* for every name, the version with the greatest modification time.
C27_MigrationKeepsNewest ==
    /\ [][\A f \in FileNames :
            (/\ mg.st = "loop" /\ f \in mg.todo /\ f \notin mg'.todo
             /\ f \notin mg'.failed /\ mg.src[f].kind = "file")
            => /\ mg'.src[f] = NoEntry
               /\ IF mg.dst[f].kind # "file" THEN mg'.dst[f] = mg.src[f]
                  ELSE IF mg.src[f].mtime <= mg.dst[f].mtime
                  THEN mg'.dst[f] = mg.dst[f]
                  ELSE mg'.dst[f].body = mg.src[f].body]_vars
    /\ [](\A f \in FileNames :
            (Migrated /\ mg.failed = {} /\ Versions(f) # {})
            => /\ mg.dst[f] \in Versions(f)
               /\ \A v \in Versions(f) : v.mtime <= mg.dst[f].mtime)

\* A migration without errors that replaced one file with a newer one and
\* discarded another that was as old as the target's.
C27_Witness ==
    /\ Migrated /\ mg.failed = {}
    /\ mg.src0["a.jpg"] = FileEntry("new", 2) /\ mg.dst0["a.jpg"] = FileEntry("kept", 1)
    /\ mg.dst["a.jpg"] = FileEntry("new", 2)
    /\ mg.src0["b.jpg"] = FileEntry("new", 2) /\ mg.dst0["b.jpg"] = FileEntry("kept", 2)
    /\ mg.dst["b.jpg"] = FileEntry("kept", 2)
    /\ \A f \in FileNames : mg.src[f] = NoEntry

\* C28: the call that ran a migration has returned without raising although
\* files failed; every regular file still in the legacy directory is one
\* that was tried and failed (the others were processed); and the legacy
\* directory is there exactly when it still has an entry.
C28_MigrationNeverRaises ==
    Migrated
    => /\ ~mg.raised
       /\ \A f \in FileNames : mg.src[f].kind = "file" => f \in mg.failed
       /\ \A f \in mg.failed : mg.src[f] = mg.src0[f]
       /\ mg.srcdir <=> (\E f \in FileNames : mg.src[f].kind # "none")

\* One file failed and stays, the other was moved, the directory is kept.
C28_Witness ==
    /\ Migrated /\ mg.failed = {"a.jpg"} /\ mg.srcdir
    /\ mg.src0["b.jpg"].kind = "file" /\ mg.src["b.jpg"] = NoEntry
    /\ mg.dst["b.jpg"] = mg.src0["b.jpg"]

\* C29: at most one migration is ever begun, and a call that comes after a
\* call has completed changes nothing: not the flag, the resolved
\* directories, the legacy directory, the target or any file.
C29_EnsureIdempotent ==
    /\ [](mg.migs <= 1)
    /\ [][(mg.inited /\ mg.st = "idle" /\ mg'.n # mg.n)
          => mg' = [mg EXCEPT !.n = @ + 1, !.raised = FALSE]]_vars

\* A late call after a migration that left a failed file behind, which a
\* second migration would pick up.
C29_Witness ==
    /\ Migrated /\ mg.n = MaxEnsure /\ mg.failed # {} /\ mg.dirs = "fallback"


\* --------------------------------------------------- properties: shutdown
\* C30: terminate cancels a sweep that is still running and waits for it;
\* the cancellation it gets back from the task is absorbed, never logged as
\* a failure; the session is closed only once the sweep task has ended; and
\* when terminate has returned no sweep download is in flight and the
\* session is closed, whether a sweep was started or not.
C30_ShutdownDrainsSweep ==
    /\ life.st = "awaiting" => sw.req
    /\ life.report # "warned"
    /\ life.report = "absorbed" => sw.st = "cancelled"
    /\ life.st \in {"closing", "terminated"} => (~TaskRunning /\ InFlight = {})
    /\ life.session = "closed" => (~TaskRunning /\ InFlight = {})
    /\ life.st = "terminated"
       => /\ life.session = "closed"
          /\ sw.req => life.report = "absorbed"

\* terminate has returned after it cancelled a sweep whose two downloads
\* had both begun.
C30_Witness ==
    /\ life.st = "terminated" /\ life.session = "closed"
    /\ life.report = "absorbed" /\ sw.flag
    /\ \A c \in Calls : IsWorker(c) /\ pc[c] = "cancelled"


\* ------------------------------------------------- properties: cache path
\* The paths the calls have returned, with the URL of each.
Returned == UNION {{<<mg.url[c], p>> : p \in mg.ret[c]} : c \in Calls}

\* The first two parts of the claim: one URL, one path; two URLs, two paths.
PureAndInjective ==
    \A x, y \in Returned : (x[1] = y[1]) <=> (x[2] = y[2])

\* C31 as stated: the cache path is a function of the URL, distinct URLs
\* have distinct paths, and the extension of the file name is the extension
\* of the URL's path, or .img when there is none or it has more than 10
\* characters.
C31_CachePathAsStated ==
    /\ PureAndInjective
    /\ \A x \in Returned :
         LET ext == SplitExt(UrlPath(x[1]))
         IN  x[2].ext = IF ext = <<>> \/ Len(ext) > 10 THEN DefaultExt ELSE ext

\* C31 amended: as stated, but the extension of the file name is the
\* extension of the URL's path in lower case.
C31_CachePathLowerCase ==
    /\ PureAndInjective
    /\ \A x \in Returned :
         LET ext == SplitExt(UrlPath(x[1]))
         IN  x[2].ext = IF ext = <<>> \/ Len(ext) > 10 THEN DefaultExt
                        ELSE [i \in 1 .. Len(ext) |->
                                 IF ext[i] = "B" THEN "b" ELSE ext[i]]

\* Two URLs, each asked for twice; the extension of the first is in upper
\* case in the URL and in lower case in its path, the second has none.
C31_Witness ==
    /\ mg.st = "paths"
    /\ mg.url[1] = Host \o <<"B", ".", "B">>
    /\ mg.url[2] = Host \o <<"B", "?", "B">>
    /\ \A c \in Calls : mg.again[c]
    /\ \E p \in mg.ret[1] : p.ext = <<".", "b">> /\ p \notin mg.ret[2]
    /\ \E p \in mg.ret[2] : p.ext = DefaultExt


\* ----------------------------------------------------- properties: render
Stages == {"panel", "avatar"} \cup {Elements[i] : i \in DOMAIN Elements}
Fatal == {"empty table", "selection", "background"}
\* The stage of this step has failed.
FailedNow == pt'.failed # pt.failed
AfterCrop == "crop" \in pt.ran

\* C32 as stated: None is returned for an empty table, a failed selection
\* or a background that cannot be read, and for nothing else; a step that
\* fails leaves the image as it was; and once the background is cropped
\* every stage runs and a path is returned.
C32_DrawFailuresAsStated ==
    /\ [](pt.res = "None" => pt.cause \in Fatal)
    /\ [][FailedNow => pt'.img = pt.img]_vars
    /\ [](pt.st = "done" /\ AfterCrop => (Stages \subseteq pt.ran /\ pt.res # "None"))

\* C32 amended: None is returned for these three and when the poster cannot
\* be written; a failed panel or avatar step leaves the image as it was, a
\* failed text element adds at most some of its lines and nothing else; and
\* once the background is cropped every stage runs, whatever failed, and a
\* path is returned unless the poster cannot be written.
C32_DrawFailuresDoNotAbort ==
    /\ [](pt.res = "None" => pt.cause \in Fatal \cup {"save"})
    /\ [][FailedNow =>
            /\ pt.img \subseteq pt'.img
            /\ \A m \in pt'.img \ pt.img : m[1] = Elements[pt.idx]
            /\ pt.st \in {"panel", "avatar"} => pt'.img = pt.img
            /\ pt'.st # "done" /\ pt'.res = "pending"]_vars
    /\ [](pt.st = "done" /\ AfterCrop
          => /\ Stages \subseteq pt.ran
             /\ pt.cause # "save" => pt.res = "poster.jpg")
    /\ [](pt.st = "done" /\ pt.res # "None"
          => \A i \in DOMAIN Elements :
                Elements[i] \notin pt.failed => <<Elements[i], 1>> \in pt.img)

\* A poster returned although the panel, two text elements and the avatar
\* failed; the elements after the failed ones are on it.
C32_Witness ==
    /\ pt.st = "done" /\ pt.res = "poster.jpg"
    /\ pt.failed = {"panel", "date", "sign_text", "avatar"}
    /\ <<"warning_text", 1>> \in pt.img /\ <<"sign_text", 1>> \in pt.img
    /\ <<"sign_text", 2>> \notin pt.img


\* ------------------------------------------------ properties: crop_center
\* C33: after the resize step the image is at least as wide and as high as
\* the canvas, and the crop box (in halves of a pixel) lies inside it.
C33_ResizeCoversCanvas ==
    /\ pt.st \in {"resized", "cropped"} => (pt.nw >= pt.w /\ pt.nh >= pt.h)
    /\ pt.st = "cropped"
       => /\ pt.box.left >= 0 /\ pt.box.top >= 0
          /\ pt.box.right <= 2 * pt.nw /\ pt.box.bottom <= 2 * pt.nh


\* -------------------------------------------------- properties: wrap_text
Concat(ls) ==
    LET F[k \in 0 .. Len(ls)] == IF k = 0 THEN <<>> ELSE F[k - 1] \o ls[k]
    IN  F[Len(ls)]
\* What the claim says of every text: the lines are the text, none is
\* empty, none is wider than max_width.
LinesAreTheText ==
    /\ Concat(pt.lines) = pt.text
    /\ \A k \in DOMAIN pt.lines :
         pt.lines[k] # <<>> /\ pt.charw * Len(pt.lines[k]) <= pt.max_width

\* C34 as stated: the lines are the text, a text that is never wider than
\* max_width gives one line, a text twice as wide as max_width gives two.
C34_WrapAsStated ==
    pt.st = "done"
    => /\ LinesAreTheText
       /\ pt.charw * Len(pt.text) <= pt.max_width => Len(pt.lines) = 1
       /\ pt.charw * Len(pt.text) = 2 * pt.max_width => Len(pt.lines) = 2

\* C34 amended: the lines are the text; the empty text gives no line, any
\* other text that is never wider than max_width one line; a text twice as
\* wide as max_width gives two lines when max_width is a whole number of
\* characters (and more than two when it is not).
C34_WrapGreedy ==
    pt.st = "done"
    => /\ LinesAreTheText
       /\ pt.text = <<>> => pt.lines = <<>>
       /\ (pt.text # <<>> /\ pt.charw * Len(pt.text) <= pt.max_width)
          => Len(pt.lines) = 1
       /\ pt.charw * Len(pt.text) = 2 * pt.max_width
          => IF pt.max_width % pt.charw = 0 THEN Len(pt.lines) = 2
             ELSE Len(pt.lines) > 2

\* A text as wide as twice max_width wrapped into two full lines.
C34_Witness ==
    /\ pt.st = "done" /\ pt.charw = 2 /\ pt.max_width = 4
    /\ pt.text = <<"a", "b", "b", "a">>
    /\ pt.lines = << <<"a", "b">>, <<"b", "a">> >>


\* ------------------------------------------- properties: permanent cache
\* The paths of the records of a table.
RecPaths(d, flag) ==
    {p \in Paths : \E u \in Users :
        /\ HasRec(d, u)
        /\ Get(RecOf(d, u), "path") = Str(PathStr(p))
        /\ Get(RecOf(d, u), "should_cleanup") = Bool(flag)}

\* C35: a file of the permanent cache directory that exists is there after
\* every step; a file that a step deletes lies in the ephemeral directory
\* and is the background a request holds with should_cleanup set or the
\* path of a record that was written with should_cleanup set; and whatever
\* is held or recorded with should_cleanup set lies in the ephemeral
\* directory.
C35_PermanentCacheKept ==
    /\ [][\A p \in Paths :
            (disk[p].exists /\ ~disk'[p].exists)
            => /\ p \in BgTmpPaths
               /\ p \notin BgCachePaths
               /\ \E c \in Calls :
                    \/ req[c].st = "finally" /\ req[c].bg = p /\ req[c].cleanup
                    \/ /\ req[c].st = "removing" /\ req[c].old = PathStr(p)
                       /\ p \in RecPaths(heap[req[c].tbl], TRUE)]_vars
    /\ [](\A c \in Calls :
            /\ (req[c].cleanup /\ req[c].bg # Null) => req[c].bg \in BgTmpPaths
            /\ RecPaths(heap[c], TRUE) \subseteq BgTmpPaths)

\* A cached background was recorded for u1 and then replaced by an
\* ephemeral one: the record of the cache file is gone, the file is not,
\* and the ephemeral file of the first record of all was deleted.
C35_Witness ==
    /\ \A c \in Calls : req[c].st = "done" /\ req[c].msg = "poster" /\ req[c].user = "u1"
    /\ req[1].bg = BgCachePath("http://a") /\ req[2].bg = BgTmpPath(2, 1)
    /\ disk[BgCachePath("http://a")].exists
    /\ ~disk[OldTmp].exists
    /\ RecPaths(heap[mem.plug], TRUE) = {BgTmpPath(2, 1)}
    /\ RecPaths(heap[mem.plug], FALSE) = {}


\* ------------------------------------- properties: ephemeral backgrounds
\* All render requests have finished.
Finished == \A c \in Calls : req[c].kind = "render" /\ req[c].st \in {"done", "raised"}
\* The paths of the current records, in the table the plugin holds.
Owned == RecPaths(heap[mem.plug], TRUE) \cup RecPaths(heap[mem.plug], FALSE)

\* C36: once all requests have finished, every ephemeral file that one of
\* them created and that is on disk is the path of the current record of
\* some user, and every current record with an ephemeral path has its file
\* on disk.
C36_EphemeralOwned ==
    Finished
    => /\ \A c \in Calls :
            disk[BgTmpPath(c, 1)].exists => BgTmpPath(c, 1) \in Owned
       /\ mem.plug # NoRef
            => \A p \in Owned \cap BgTmpPaths : disk[p].exists


\* ------------------------------------------ properties: concurrent saves
\* C37: once all requests have finished and one of them at least has
\* recorded its image and saved, jrys.json is valid JSON that parses to the
\* table the process holds, with a record of every user whose render
\* succeeded and of every user that had one before.
C37_SavedFileWhole ==
    (Finished /\ \E c \in Calls : req[c].msg = "poster")
    => LET r == Loads(jfile.text)
       IN  /\ jfile.kind = "text"
           /\ r.ok
           /\ r.v = heap[mem.data]
           /\ r.v = heap[mem.plug]
           /\ \A c \in Calls : req[c].msg = "poster" => HasRec(r.v, req[c].user)
           /\ \A u \in mem.rec0 : HasRec(r.v, u)

====
